---- MODULE Spec2Model ----
(***************************************************************************)
(* Widget mounting lifecycle of solid-tradingview-widgets.                 *)
(*                                                                         *)
(* Every component merges its props with defaults (mergeProps), and owns   *)
(* one reactive effect (createEffect) that creates a widget root inside    *)
(* the stable outer container, applies the resolved dimensions, injects    *)
(* the vendor script with the JSON payload (loadScript) and registers a    *)
(* cleanup (onCleanup) that removes the widget root.  The outcome of the   *)
(* script load is observed later by the continuation of downloadScript.    *)
(***************************************************************************)
EXTENDS Integers, Sequences, FiniteSets, TLC

(***************************************************************************)
(* Bounds of the model.                                                    *)
(***************************************************************************)
MaxChanges == 2

\* A page with two widget instances.
Inst == {1, 2}

(***************************************************************************)
(* JavaScript values.  Every value has the same shape so that values of    *)
(* different JavaScript types can be compared.                             *)
(***************************************************************************)
Undef == [tag |-> "undefined", n |-> 0, s |-> ""]
Str(x) == [tag |-> "string", n |-> 0, s |-> x]
Num(x) == [tag |-> "number", n |-> x, s |-> ""]
Bool(b) == [tag |-> "boolean", n |-> IF b THEN 1 ELSE 0, s |-> ""]
Fn(name) == [tag |-> "function", n |-> 0, s |-> name]

\* JavaScript truthiness, as used by `||`, `?:` and `if`.
Truthy(v) ==
  CASE v.tag = "undefined" -> FALSE
    [] v.tag = "boolean" -> v.n = 1
    [] v.tag = "number" -> v.n # 0
    [] v.tag = "string" -> v.s # ""
    [] OTHER -> TRUE

\* String conversion of a value inside a template literal.
TemplateString(v) ==
  CASE v.tag = "undefined" -> "undefined"
    [] v.tag = "boolean" -> (IF v.n = 1 THEN "true" ELSE "false")
    [] v.tag = "number" -> ToString(v.n)
    [] OTHER -> v.s

\* An array literal, and an object literal: the sequence of its
\* <<key, value>> entries in insertion order.
Arr(items) == [tag |-> "array", n |-> 0, s |-> "", items |-> items]
Obj(entries) == [tag |-> "object", n |-> 0, s |-> "", items |-> entries]

NotNot(v) == Bool(Truthy(v))

\* !value
Not(v) == Bool(~Truthy(v))

\* JSON.stringify leaves out the keys of an object whose value is undefined
\* (or a function), and writes null for such an element of an array.
Serializable(v) == v.tag \notin {"undefined", "function"}

RECURSIVE JSONValue(_)
RECURSIVE JSONItems(_, _)
RECURSIVE JSONEntries(_, _)

\* JSON.stringify of a value.
JSONValue(v) ==
  CASE v.tag = "boolean" -> (IF v.n = 1 THEN "true" ELSE "false")
    [] v.tag = "number" -> ToString(v.n)
    [] v.tag = "array" -> "[" \o JSONItems(v.items, TRUE) \o "]"
    [] v.tag = "object" -> "{" \o JSONEntries(v.items, TRUE) \o "}"
    [] v.tag \in {"undefined", "function"} -> "null"
    [] OTHER -> "\"" \o v.s \o "\""

JSONItems(items, first) ==
  IF items = << >> THEN ""
  ELSE (IF first THEN "" ELSE ",") \o JSONValue(Head(items))
         \o JSONItems(Tail(items), FALSE)

JSONEntries(obj, first) ==
  IF obj = << >> THEN ""
  ELSE IF ~Serializable(Head(obj)[2]) THEN JSONEntries(Tail(obj), first)
  ELSE (IF first THEN "" ELSE ",")
         \o "\"" \o Head(obj)[1] \o "\":" \o JSONValue(Head(obj)[2])
         \o JSONEntries(Tail(obj), FALSE)

JSONStringify(obj) == "{" \o JSONEntries(obj, TRUE) \o "}"

\* The keys of the JSON text of an object, and the value under a key
\* (undefined when the text has no such key).
PayloadKeys(obj) == {obj[x][1] : x \in {y \in DOMAIN obj : Serializable(obj[y][2])}}
PayloadValue(obj, key) ==
  IF key \in PayloadKeys(obj)
  THEN obj[CHOOSE x \in DOMAIN obj : obj[x][1] = key /\ Serializable(obj[x][2])][2]
  ELSE Undef

\* table[key]: undefined when the table has no entry for the key.
Index(table, key) == IF key.s \in DOMAIN table THEN table[key.s] ELSE Undef

(***************************************************************************)
(* mergeProps(defaults, props): a key resolves to the props value unless   *)
(* that value is undefined, and to the default otherwise.                  *)
(***************************************************************************)
mergePropsOr(defaults, p) ==
  [k \in (DOMAIN defaults) \cup (DOMAIN p) |->
     IF k \in DOMAIN p /\ Truthy(p[k]) THEN p[k]
     ELSE IF k \in DOMAIN defaults THEN defaults[k]
     ELSE Undef]

mergeProps(defaults, p) ==
  [k \in (DOMAIN defaults) \cup (DOMAIN p) |->
     IF k \in DOMAIN p /\ p[k] # Undef THEN p[k]
     ELSE IF k \in DOMAIN defaults THEN defaults[k]
     ELSE Undef]

(***************************************************************************)
(* Dimension resolution shared by the effects.                             *)
(***************************************************************************)
\* fullWidth ? "100%" : `${_props.width}px`
SizeStyle(full, size) == IF full THEN "100%" ELSE TemplateString(size) \o "px"
SizeFieldAsText(full, size) ==
  IF full THEN Str("100%") ELSE Str(TemplateString(size) \o "px")

\* fullWidth ? "100%" : _props.width
SizeField(full, size) == IF full THEN Str("100%") ELSE size
IsFullSizeOnly(autosize, size) == size = Str("full")

\* _props.autosize || _props.width === "full"
IsFull(autosize, size) == Truthy(autosize) \/ size = Str("full")
SizeReadsNothing(autosize, name) == {}
SizeReadsBoth(autosize, name) == {"autosize", name}
SizeReadsAutosizeOnly(autosize, name) == {"autosize"}

\* props read by the `||` above: the size is read only when autosize is falsy
SizeReads(autosize, name) == {"autosize"} \cup (IF Truthy(autosize) THEN {} ELSE {name})

WidgetRootClass == "tradingview-widget-container__widget"

(***************************************************************************)
(* The enumerations of the props and the tables that map their values to   *)
(* the values the vendor scripts expect.                                   *)
(***************************************************************************)
ScaleMode ==
  {"normal", "percentage", "logarithmic"}

ChartType ==
  {"area", "line", "bar", "candlestick"}

ValueTrackingMode ==
  {"floating_tooltip", "colored_tooltip", "legend", "scale_labels"}

LineType ==
  {"simple", "curved", "stepLine"}

TimeFormat ==
  {"12h", "24h"}

ScaleModeMap ==
  "normal" :> Str("Normal") @@ "percentage" :> Str("Percentage") @@
  "logarithmic" :> Str("Logarithmic")

ChartTypeMapWithoutCandlestick ==
  "area" :> Str("area") @@ "line" :> Str("line") @@ "bar" :> Str("bars")

ChartTypeMap ==
  "area" :> Str("area") @@ "line" :> Str("line") @@ "bar" :> Str("bars") @@
  "candlestick" :> Str("candlesticks")

ValueTrackingModeMap ==
  "floating_tooltip" :> Str("1") @@ "colored_tooltip" :> Str("2") @@
  "legend" :> Str("3") @@ "scale_labels" :> Str("0")

LineTypeMap ==
  "simple" :> Num(0) @@ "curved" :> Num(2) @@ "stepLine" :> Num(1)

TimeFormatMap ==
  "12h" :> Str("12-hours") @@ "24h" :> Str("24-hours")

Country ==
  {"United States", "Canada", "Austria", "Belgium", "Cyprus", "Czech Republic",
   "Denmark", "Estonia", "European Union", "Finland", "France", "Germany", "Greece",
   "Hungary", "Iceland", "Ireland", "Italy", "Latvia", "Lithuania", "Luxembourg",
   "Netherlands", "Norway", "Poland", "Portugal", "Romania", "Russia", "Serbia",
   "Slovakia", "Spain", "Sweden", "Switzerland", "Ukraine", "United Kingdom",
   "Angola", "Bahrain", "Botswana", "Egypt", "Ethiopia", "Ghana", "Israel", "Kenya",
   "Kuwait", "Malawi", "Mauritius", "Morocco", "Mozambique", "Namibia", "Nigeria",
   "Oman", "Qatar", "Rwanda", "Saudi Arabia", "Seychelles", "South Africa",
   "Tanzania", "Tunisia", "Turkey", "Uganda", "United Arab Emirates", "Zambia",
   "Zimbabwe", "Argentina", "Brazil", "Chile", "Colombia", "Mexico", "Peru",
   "Venezuela", "Australia", "Bangladesh", "China", "Hong Kong", "India",
   "Indonesia", "Japan", "South Korea", "Sri Lanka", "Malaysia", "New Zealand",
   "Pakistan", "Philippines", "Singapore", "Taiwan", "Thailand", "Vietnam"}

CountryMap ==
  "United States" :> Str("us") @@ "Canada" :> Str("ca") @@ "Austria" :> Str("at") @@
  "Belgium" :> Str("be") @@ "Cyprus" :> Str("cy") @@ "Czech Republic" :> Str("cz") @@
  "Denmark" :> Str("dk") @@ "Estonia" :> Str("ee") @@
  "European Union" :> Str("eu") @@ "Finland" :> Str("fi") @@ "France" :> Str("fr") @@
  "Germany" :> Str("de") @@ "Greece" :> Str("gr") @@ "Hungary" :> Str("hu") @@
  "Iceland" :> Str("is") @@ "Ireland" :> Str("ie") @@ "Italy" :> Str("it") @@
  "Latvia" :> Str("lv") @@ "Lithuania" :> Str("lt") @@ "Luxembourg" :> Str("lu") @@
  "Netherlands" :> Str("nl") @@ "Norway" :> Str("no") @@ "Poland" :> Str("pl") @@
  "Portugal" :> Str("pt") @@ "Romania" :> Str("ro") @@ "Russia" :> Str("ru") @@
  "Serbia" :> Str("rs") @@ "Slovakia" :> Str("sk") @@ "Spain" :> Str("es") @@
  "Sweden" :> Str("se") @@ "Switzerland" :> Str("ch") @@ "Ukraine" :> Str("ua") @@
  "United Kingdom" :> Str("gb") @@ "Angola" :> Str("ao") @@ "Bahrain" :> Str("bh") @@
  "Botswana" :> Str("bw") @@ "Egypt" :> Str("eg") @@ "Ethiopia" :> Str("et") @@
  "Ghana" :> Str("gh") @@ "Israel" :> Str("il") @@ "Kenya" :> Str("ke") @@
  "Kuwait" :> Str("kw") @@ "Malawi" :> Str("mw") @@ "Mauritius" :> Str("mu") @@
  "Morocco" :> Str("ma") @@ "Mozambique" :> Str("mz") @@ "Namibia" :> Str("na") @@
  "Nigeria" :> Str("ng") @@ "Oman" :> Str("om") @@ "Qatar" :> Str("qa") @@
  "Rwanda" :> Str("rw") @@ "Saudi Arabia" :> Str("sa") @@
  "Seychelles" :> Str("sc") @@ "South Africa" :> Str("za") @@
  "Tanzania" :> Str("tz") @@ "Tunisia" :> Str("tn") @@ "Turkey" :> Str("tr") @@
  "Uganda" :> Str("ug") @@ "United Arab Emirates" :> Str("ae") @@
  "Zambia" :> Str("zm") @@ "Zimbabwe" :> Str("zw") @@ "Argentina" :> Str("ar") @@
  "Brazil" :> Str("br") @@ "Chile" :> Str("cl") @@ "Colombia" :> Str("co") @@
  "Mexico" :> Str("mx") @@ "Peru" :> Str("pe") @@ "Venezuela" :> Str("ve") @@
  "Australia" :> Str("au") @@ "Bangladesh" :> Str("bd") @@ "China" :> Str("cn") @@
  "Hong Kong" :> Str("hk") @@ "India" :> Str("in") @@ "Indonesia" :> Str("id") @@
  "Japan" :> Str("jp") @@ "South Korea" :> Str("kr") @@ "Sri Lanka" :> Str("lk") @@
  "Malaysia" :> Str("my") @@ "New Zealand" :> Str("nz") @@ "Pakistan" :> Str("pk") @@
  "Philippines" :> Str("ph") @@ "Singapore" :> Str("sg") @@ "Taiwan" :> Str("tw") @@
  "Thailand" :> Str("th") @@ "Vietnam" :> Str("vn")

AdvancedChartIndicator ==
  {"volume24h", "accumulationDistribution", "advanceDeclineLine",
   "advanceDeclineRatio", "advanceDeclineRatioBars", "arnaudLegouxMovingAverage",
   "aroon", "averageDayRange", "averageDirectionalIndex", "averageTrueRange",
   "awesomeOscillator", "balanceOfPower", "bbTrend", "bollingerBands",
   "bollingerBandsPercentB", "bollingerBandwidth", "bollingerBars", "bullBearPower",
   "chaikinMoneyFlow", "chaikinOscillator", "chandeKrollStop",
   "chandeMomentumOscillator", "chopZone", "choppinessIndex",
   "commodityChannelIndex", "connorsRsi", "coppockCurve",
   "correlationCoefficientBasic", "correlationCoefficient", "cumulativeVolumeDelta",
   "cumulativeVolumeIndex", "detrendedPriceOscillator", "directionalMovementIndex",
   "donchianChannels", "doubleEma", "easeOfMovement", "elderForceIndex", "envelope",
   "fisherTransform", "gaps", "historicalVolatility", "hullMovingAverage",
   "ichimokuCloud", "keltnerChannels", "klingerOscillator", "knowSureThing",
   "leastSquaresMovingAverage", "linearRegressionChannel", "maCross", "massIndex",
   "mcginleyDynamic", "median", "momentum", "moneyFlowIndex", "moonPhases",
   "movingAverageConvergenceDivergence", "movingAverageExponential",
   "movingAverageRibbon", "movingAverageSimple", "movingAverageWeighted",
   "multiTimePeriodCharts", "netVolume", "onBalanceVolume", "openInterest",
   "parabolicSar", "performance", "pivotPointsHighLow", "pivotPointsStandard",
   "priceOscillator", "priceTarget", "priceVolumeTrendBasic", "priceVolumeTrend",
   "rankCorrelationIndex", "rateOfChange", "rciRibbon", "relativeStrengthIndex",
   "relativeVigorIndex", "relativeVolatilityIndex", "relativeVolumeAtTime",
   "robBookerIntradayPivotPoints", "robBookerKnoxvilleDivergence",
   "robBookerMissedPivotPoints", "robBookerReversal", "robBookerZivGhostPivots",
   "rsiDivergenceIndicator", "seasonality", "smiErgodicIndicator",
   "smiErgodicOscillator", "smoothedMovingAverage", "stochastic",
   "stochasticMomentumIndex", "stochasticRsi", "supertrend", "technicalRatings",
   "timeWeightedAveragePrice", "tradingSessions", "trendStrengthIndex", "tripleEma",
   "trix", "trueStrengthIndex", "ultimateOscillator", "upDownVolume",
   "visibleAveragePrice", "volatilityStop", "volume", "volumeDelta",
   "volumeOscillator", "volumeWeightedAveragePrice", "volumeWeightedMovingAverage",
   "vortexIndicator", "williamsAlligator", "williamsFractals",
   "williamsPercentRange", "woodiesCci", "zigZag"}

IndicatorMap ==
  "volume24h" :> Str("STD;24h%Volume") @@
  "accumulationDistribution" :> Str("STD;Accumulation_Distribution") @@
  "advanceDeclineLine" :> Str("STD;Advance%1Decline%1Line") @@
  "advanceDeclineRatio" :> Str("STD;Advance%1Decline%1Ratio") @@
  "advanceDeclineRatioBars" :> Str("STD;Advance_Decline_Ratio_Bars") @@
  "arnaudLegouxMovingAverage" :> Str("STD;Arnaud%1Legoux%1Moving%1Average") @@
  "aroon" :> Str("STD;Aroon") @@ "averageDayRange" :> Str("STD;Average%Day%Range") @@
  "averageDirectionalIndex" :> Str("STD;Average%1Directional%1Index") @@
  "averageTrueRange" :> Str("STD;Average_True_Range") @@
  "awesomeOscillator" :> Str("STD;Awesome_Oscillator") @@
  "balanceOfPower" :> Str("STD;Balance%1of%1Power") @@
  "bbTrend" :> Str("STD;BBTrend") @@
  "bollingerBands" :> Str("STD;Bollinger_Bands") @@
  "bollingerBandsPercentB" :> Str("STD;Bollinger_Bands_B") @@
  "bollingerBandwidth" :> Str("STD;Bollinger_Bands_Width") @@
  "bollingerBars" :> Str("STD;Bollinger%1Bars") @@
  "bullBearPower" :> Str("STD;Bull%Bear%Power") @@
  "chaikinMoneyFlow" :> Str("STD;Chaikin_Money_Flow") @@
  "chaikinOscillator" :> Str("STD;Chaikin_Oscillator") @@
  "chandeKrollStop" :> Str("STD;Chande%1Kroll%1Stop") @@
  "chandeMomentumOscillator" :> Str("STD;Chande_Momentum_Oscillator") @@
  "chopZone" :> Str("STD;Chop%1Zone") @@
  "choppinessIndex" :> Str("STD;Choppiness_Index") @@
  "commodityChannelIndex" :> Str("STD;CCI") @@
  "connorsRsi" :> Str("STD;Connors_RSI") @@
  "coppockCurve" :> Str("STD;Coppock%1Curve") @@
  "correlationCoefficientBasic" :> Str("CorrelationCoefficient@tv-basicstudies") @@
  "correlationCoefficient" :> Str("STD;Correlation_Coeff") @@
  "cumulativeVolumeDelta" :> Str("STD;Cumulative%1Volume%1Delta") @@
  "cumulativeVolumeIndex" :> Str("STD;Cumulative%1Volume%1Index") @@
  "detrendedPriceOscillator" :> Str("STD;DPO") @@
  "directionalMovementIndex" :> Str("STD;DMI") @@
  "donchianChannels" :> Str("STD;Donchian_Channels") @@
  "doubleEma" :> Str("STD;DEMA") @@ "easeOfMovement" :> Str("STD;EOM") @@
  "elderForceIndex" :> Str("STD;EFI") @@ "envelope" :> Str("STD;ENV") @@
  "fisherTransform" :> Str("STD;Fisher_Transform") @@ "gaps" :> Str("STD;Gaps") @@
  "historicalVolatility" :> Str("STD;Historical_Volatility") @@
  "hullMovingAverage" :> Str("STD;Hull%1MA") @@
  "ichimokuCloud" :> Str("STD;Ichimoku%1Cloud") @@
  "keltnerChannels" :> Str("STD;Keltner_Channels") @@
  "klingerOscillator" :> Str("STD;Klinger%1Oscillator") @@
  "knowSureThing" :> Str("STD;Know_Sure_Thing") @@
  "leastSquaresMovingAverage" :> Str("STD;Least%1Squares%1Moving%1Average") @@
  "linearRegressionChannel" :> Str("STD;Linear_Regression") @@
  "maCross" :> Str("STD;MA%1Cross") @@ "massIndex" :> Str("STD;Mass%1Index") @@
  "mcginleyDynamic" :> Str("STD;McGinley%1Dynamic") @@
  "median" :> Str("STD;Median") @@ "momentum" :> Str("STD;Momentum") @@
  "moneyFlowIndex" :> Str("STD;Money_Flow") @@
  "moonPhases" :> Str("MoonPhases@tv-basicstudies") @@
  "movingAverageConvergenceDivergence" :> Str("STD;MACD") @@
  "movingAverageExponential" :> Str("STD;EMA") @@
  "movingAverageRibbon" :> Str("STD;MA%Ribbon") @@
  "movingAverageSimple" :> Str("STD;SMA") @@
  "movingAverageWeighted" :> Str("STD;WMA") @@
  "multiTimePeriodCharts" :> Str("STD;Multi-Time%Period%Charts") @@
  "netVolume" :> Str("STD;Net%1Volume") @@
  "onBalanceVolume" :> Str("STD;On_Balance_Volume") @@
  "openInterest" :> Str("STD;Open%Interest") @@ "parabolicSar" :> Str("STD;PSAR") @@
  "performance" :> Str("STD;Performance") @@
  "pivotPointsHighLow" :> Str("STD;Pivot%1Points%1High%1Low") @@
  "pivotPointsStandard" :> Str("STD;Pivot%1Points%1Standard") @@
  "priceOscillator" :> Str("STD;Price_Oscillator") @@
  "priceTarget" :> Str("STD;Price%1Target") @@
  "priceVolumeTrendBasic" :> Str("PriceVolumeTrend@tv-basicstudies") @@
  "priceVolumeTrend" :> Str("STD;Price_Volume_Trend") @@
  "rankCorrelationIndex" :> Str("STD;Rank_Correlation_Index") @@
  "rateOfChange" :> Str("STD;ROC") @@ "rciRibbon" :> Str("STD;RCI_Ribbon") @@
  "relativeStrengthIndex" :> Str("STD;RSI") @@
  "relativeVigorIndex" :> Str("STD;Relative_Vigor_Index") @@
  "relativeVolatilityIndex" :> Str("STD;Relative_Volatility_Index") @@
  "relativeVolumeAtTime" :> Str("STD;Relative%1Volume%1at%1Time") @@
  "robBookerIntradayPivotPoints" :> Str("BookerIntradayPivots@tv-basicstudies") @@
  "robBookerKnoxvilleDivergence" :> Str("BookerKnoxvilleDivergence@tv-basicstudies") @@
  "robBookerMissedPivotPoints" :> Str("BookerMissedPivots@tv-basicstudies") @@
  "robBookerReversal" :> Str("BookerReversal@tv-basicstudies") @@
  "robBookerZivGhostPivots" :> Str("STD;Rob%1Booker%1Ghost%1Pivots%1v2") @@
  "rsiDivergenceIndicator" :> Str("STD;Divergence%1Indicator") @@
  "seasonality" :> Str("STD;Seasonality") @@
  "smiErgodicIndicator" :> Str("STD;SMI_Ergodic_Indicator_Oscillator") @@
  "smiErgodicOscillator" :> Str("STD;SMI_Ergodic_Oscillator") @@
  "smoothedMovingAverage" :> Str("STD;Smoothed%1Moving%1Average") @@
  "stochastic" :> Str("STD;Stochastic") @@
  "stochasticMomentumIndex" :> Str("STD;SMI") @@
  "stochasticRsi" :> Str("STD;Stochastic_RSI") @@
  "supertrend" :> Str("STD;Supertrend") @@
  "technicalRatings" :> Str("STD;Technical%1Ratings") @@
  "timeWeightedAveragePrice" :> Str("STD;Time%1Weighted%1Average%1Price") @@
  "tradingSessions" :> Str("STD;Trading%1Sessions") @@
  "trendStrengthIndex" :> Str("STD;Trend%1Strength%1Index") @@
  "tripleEma" :> Str("STD;TEMA") @@ "trix" :> Str("STD;TRIX") @@
  "trueStrengthIndex" :> Str("STD;True%1Strength%1Indicator") @@
  "ultimateOscillator" :> Str("STD;Ultimate_Oscillator") @@
  "upDownVolume" :> Str("STD;UP_DOWN_Volume") @@
  "visibleAveragePrice" :> Str("STD;Visible%1Average%1Price") @@
  "volatilityStop" :> Str("STD;Volatility_Stop") @@
  "volume" :> Str("Volume@tv-basicstudies") @@
  "volumeDelta" :> Str("STD;Volume%1Delta") @@
  "volumeOscillator" :> Str("STD;Volume%1Oscillator") @@
  "volumeWeightedAveragePrice" :> Str("STD;VWAP") @@
  "volumeWeightedMovingAverage" :> Str("STD;VWMA") @@
  "vortexIndicator" :> Str("STD;Vortex%1Indicator") @@
  "williamsAlligator" :> Str("STD;Williams_Alligator") @@
  "williamsFractals" :> Str("STD;Whilliams_Fractals") @@
  "williamsPercentRange" :> Str("STD;Willams_R") @@
  "woodiesCci" :> Str("STD;Woodies%1CCI") @@ "zigZag" :> Str("STD;Zig_Zag")

ScreenerExchange ==
  {"america", "argentina", "brazil", "canada", "chile", "colombia", "mexico",
   "venezuela", "australia", "austria", "cyprus", "czech", "denmark", "estonia",
   "finland", "germany", "greece", "hungary", "iceland", "italy", "latvia",
   "lithuania", "poland", "russia", "spain", "switzerland", "china", "india",
   "indonesia", "israel", "kuwait", "srilanka", "taiwan", "turkey", "uae", "vietnam",
   "egypt", "morocco", "rsa", "forex", "crypto"}

ALL_COLUMNS ==
  <<"overview", "performance", "valuation", "dividends", "margins",
    "income_statement", "balance_sheet", "oscillators", "moving_averages">>

SUB_COLUMNS ==
  <<"overview", "performance", "oscillators", "moving_averages">>

ScreenerColumnViews ==
  "america" :> ALL_COLUMNS @@ "argentina" :> ALL_COLUMNS @@
  "australia" :> ALL_COLUMNS @@ "austria" :> ALL_COLUMNS @@
  "brazil" :> ALL_COLUMNS @@ "canada" :> ALL_COLUMNS @@ "chile" :> ALL_COLUMNS @@
  "colombia" :> ALL_COLUMNS @@ "cyprus" :> ALL_COLUMNS @@ "czech" :> ALL_COLUMNS @@
  "denmark" :> ALL_COLUMNS @@ "egypt" :> ALL_COLUMNS @@ "estonia" :> ALL_COLUMNS @@
  "finland" :> ALL_COLUMNS @@ "germany" :> ALL_COLUMNS @@ "greece" :> ALL_COLUMNS @@
  "hungary" :> ALL_COLUMNS @@ "iceland" :> ALL_COLUMNS @@ "india" :> ALL_COLUMNS @@
  "indonesia" :> ALL_COLUMNS @@ "israel" :> ALL_COLUMNS @@ "italy" :> ALL_COLUMNS @@
  "kuwait" :> ALL_COLUMNS @@ "latvia" :> ALL_COLUMNS @@ "lithuania" :> ALL_COLUMNS @@
  "china" :> ALL_COLUMNS @@ "mexico" :> ALL_COLUMNS @@ "morocco" :> ALL_COLUMNS @@
  "poland" :> ALL_COLUMNS @@ "russia" :> ALL_COLUMNS @@ "rsa" :> ALL_COLUMNS @@
  "spain" :> ALL_COLUMNS @@ "srilanka" :> ALL_COLUMNS @@
  "switzerland" :> ALL_COLUMNS @@ "taiwan" :> ALL_COLUMNS @@
  "turkey" :> ALL_COLUMNS @@ "uae" :> ALL_COLUMNS @@ "venezuela" :> ALL_COLUMNS @@
  "vietnam" :> ALL_COLUMNS @@ "forex" :> SUB_COLUMNS @@ "crypto" :> SUB_COLUMNS

ALL_SCREENS ==
  <<"most_capitalized", "volume_leaders", "top_gainers", "top_losers", "ath", "atl",
    "high_dividend", "above_52wk_high", "below_52wk_low", "monthly_high",
    "monthly_low", "most_volatile", "unusual_volume", "overbought", "oversold",
    "outperforming_SMA50", "underperforming_SMA50", "earnings_this_week">>

SUB_SCREENS ==
  <<"general", "top_gainers", "top_losers", "ath", "atl", "above_52wk_high",
    "below_52wk_low", "monthly_high", "monthly_low", "most_volatile", "overbought",
    "oversold", "outperforming_SMA50", "underperforming_SMA50">>

ScreenerScreenViews ==
  "america" :> ALL_SCREENS @@ "argentina" :> ALL_SCREENS @@
  "australia" :> ALL_SCREENS @@ "austria" :> ALL_SCREENS @@
  "brazil" :> ALL_SCREENS @@ "canada" :> ALL_SCREENS @@ "chile" :> ALL_SCREENS @@
  "colombia" :> ALL_SCREENS @@ "cyprus" :> ALL_SCREENS @@ "czech" :> ALL_SCREENS @@
  "denmark" :> ALL_SCREENS @@ "egypt" :> ALL_SCREENS @@ "estonia" :> ALL_SCREENS @@
  "finland" :> ALL_SCREENS @@ "germany" :> ALL_SCREENS @@ "greece" :> ALL_SCREENS @@
  "hungary" :> ALL_SCREENS @@ "iceland" :> ALL_SCREENS @@ "india" :> ALL_SCREENS @@
  "indonesia" :> ALL_SCREENS @@ "israel" :> ALL_SCREENS @@ "italy" :> ALL_SCREENS @@
  "kuwait" :> ALL_SCREENS @@ "latvia" :> ALL_SCREENS @@ "lithuania" :> ALL_SCREENS @@
  "china" :> ALL_SCREENS @@ "mexico" :> ALL_SCREENS @@ "morocco" :> ALL_SCREENS @@
  "poland" :> ALL_SCREENS @@ "russia" :> ALL_SCREENS @@ "rsa" :> ALL_SCREENS @@
  "spain" :> ALL_SCREENS @@ "srilanka" :> ALL_SCREENS @@
  "switzerland" :> ALL_SCREENS @@ "taiwan" :> ALL_SCREENS @@
  "turkey" :> ALL_SCREENS @@ "uae" :> ALL_SCREENS @@ "venezuela" :> ALL_SCREENS @@
  "vietnam" :> ALL_SCREENS @@ "forex" :> SUB_SCREENS @@ "crypto" :> SUB_SCREENS

(***************************************************************************)
(* The components.  For each: the props of its type, the defaults handed   *)
(* to mergeProps, and the synchronous body of its effect applied to the    *)
(* merged props mp: the styles it sets on the container (cw, ch) and on    *)
(* the fresh widget root (rw, rh), the script it injects (src, config)     *)
(* and the props it reads while the effect is tracking (reads).            *)
(***************************************************************************)
Widgets ==
  {"TechnicalAnalysis", "MiniChart", "FundamentalData", "CompanyProfile",
   "TopStories", "SingleTicker", "SymbolInfo", "Screener", "CryptoMarket",
   "AdvancedChart", "SymbolOverview", "EconomicCalendar"}

TechnicalAnalysisProps ==
  {"symbol", "width", "height", "locale", "displayMode", "interval", "colorTheme",
   "autosize", "showIntervalTabs", "isTransparent", "onError"}

TechnicalAnalysisDefaults ==
  [width |-> Str("full"), height |-> Str("full"), displayMode |-> Str("single"),
   locale |-> Str("en"), colorTheme |-> Str("light"), interval |-> Str("5m"),
   autosize |-> Bool(TRUE), showIntervalTabs |-> Bool(FALSE),
   isTransparent |-> Bool(FALSE)]

TechnicalAnalysisEffect(mp) ==
  LET fullWidth == IsFull(mp.autosize, mp.width)
      fullHeight == IsFull(mp.autosize, mp.height)
  IN [cw |-> SizeStyle(fullWidth, mp.width), rw |-> SizeStyle(fullWidth, mp.width),
      setsHeight |-> TRUE,
      ch |-> SizeStyle(fullHeight, mp.height), rh |-> SizeStyle(fullHeight, mp.height),
      src |-> "https://s3.tradingview.com/external-embedding/embed-widget-technical-analysis.js",
      config |-> << <<"symbol", mp.symbol>>,
                    <<"width", SizeField(fullWidth, mp.width)>>,
                    <<"height", SizeField(fullHeight, mp.height)>>,
                    <<"interval", mp.interval>>,
                    <<"showIntervalTabs", mp.showIntervalTabs>>,
                    <<"displayMode", mp.displayMode>>,
                    <<"locale", mp.locale>>,
                    <<"colorTheme", mp.colorTheme>>,
                    <<"isTransparent", mp.isTransparent>> >>,
      reads |-> SizeReads(mp.autosize, "width") \cup SizeReads(mp.autosize, "height")
                  \cup {"symbol", "interval", "showIntervalTabs", "displayMode",
                        "locale", "colorTheme", "isTransparent"}]

MiniChartProps ==
  {"symbol", "width", "height", "locale", "dateRange", "colorTheme", "trendLineColor",
   "underLineColor", "underLineBottomColor", "autosize", "isTransparent", "chartOnly",
   "noTimeScale", "onError"}

MiniChartDefaults ==
  [width |-> Str("full"), height |-> Str("full"), locale |-> Str("en"),
   colorTheme |-> Str("light"), dateRange |-> Str("1M"), autosize |-> Bool(TRUE),
   isTransparent |-> Bool(FALSE), chartOnly |-> Bool(FALSE), noTimeScale |-> Bool(FALSE)]

MiniChartEffect(mp) ==
  LET fullWidth == IsFull(mp.autosize, mp.width)
      fullHeight == IsFull(mp.autosize, mp.height)
  IN [cw |-> SizeStyle(fullWidth, mp.width), rw |-> SizeStyle(fullWidth, mp.width),
      setsHeight |-> TRUE,
      ch |-> SizeStyle(fullHeight, mp.height), rh |-> SizeStyle(fullHeight, mp.height),
      src |-> "https://s3.tradingview.com/external-embedding/embed-widget-mini-symbol-overview.js",
      config |-> << <<"symbol", mp.symbol>>,
                    <<"autosize", mp.autosize>>,
                    <<"width", SizeField(fullWidth, mp.width)>>,
                    <<"height", SizeField(fullHeight, mp.height)>>,
                    <<"locale", mp.locale>>,
                    <<"colorTheme", mp.colorTheme>>,
                    <<"dateRange", mp.dateRange>>,
                    <<"trendLineColor", mp.trendLineColor>>,
                    <<"underLineColor", mp.underLineColor>>,
                    <<"underLineBottomColor", mp.underLineBottomColor>>,
                    <<"isTransparent", mp.isTransparent>>,
                    <<"chartOnly", mp.chartOnly>>,
                    <<"noTimeScale", mp.noTimeScale>> >>,
      reads |-> SizeReads(mp.autosize, "width") \cup SizeReads(mp.autosize, "height")
                  \cup {"symbol", "autosize", "locale", "colorTheme", "dateRange",
                        "trendLineColor", "underLineColor", "underLineBottomColor",
                        "isTransparent", "chartOnly", "noTimeScale"}]

FundamentalDataProps ==
  {"symbol", "width", "height", "colorTheme", "locale", "displayMode", "autosize",
   "isTransparent", "onError"}

FundamentalDataDefaults ==
  [width |-> Str("full"), height |-> Str("full"), locale |-> Str("en"),
   colorTheme |-> Str("light"), displayMode |-> Str("regular"), autosize |-> Bool(TRUE),
   isTransparent |-> Bool(FALSE)]

FundamentalDataEffect(mp) ==
  LET fullWidth == IsFull(mp.autosize, mp.width)
      fullHeight == IsFull(mp.autosize, mp.height)
  IN [cw |-> SizeStyle(fullWidth, mp.width), rw |-> SizeStyle(fullWidth, mp.width),
      setsHeight |-> TRUE,
      ch |-> SizeStyle(fullHeight, mp.height), rh |-> SizeStyle(fullHeight, mp.height),
      src |-> "https://s3.tradingview.com/external-embedding/embed-widget-financials.js",
      config |-> << <<"symbol", mp.symbol>>,
                    <<"width", SizeField(fullWidth, mp.width)>>,
                    <<"height", SizeField(fullHeight, mp.height)>>,
                    <<"locale", mp.locale>>,
                    <<"colorTheme", mp.colorTheme>>,
                    <<"displayMode", mp.displayMode>>,
                    <<"isTransparent", mp.isTransparent>> >>,
      reads |-> SizeReads(mp.autosize, "width") \cup SizeReads(mp.autosize, "height")
                  \cup {"symbol", "locale", "colorTheme", "displayMode", "isTransparent"}]

CompanyProfileProps ==
  {"symbol", "width", "height", "colorTheme", "locale", "autosize", "isTransparent",
   "onError"}

CompanyProfileDefaults ==
  [width |-> Str("full"), height |-> Str("full"), locale |-> Str("en"),
   colorTheme |-> Str("light"), autosize |-> Bool(TRUE), isTransparent |-> Bool(FALSE)]

CompanyProfileEffect(mp) ==
  LET fullWidth == IsFull(mp.autosize, mp.width)
      fullHeight == IsFull(mp.autosize, mp.height)
  IN [cw |-> SizeStyle(fullWidth, mp.width), rw |-> SizeStyle(fullWidth, mp.width),
      setsHeight |-> TRUE,
      ch |-> SizeStyle(fullHeight, mp.height), rh |-> SizeStyle(fullHeight, mp.height),
      src |-> "https://s3.tradingview.com/external-embedding/embed-widget-symbol-profile.js",
      config |-> << <<"symbol", mp.symbol>>,
                    <<"width", SizeField(fullWidth, mp.width)>>,
                    <<"height", SizeField(fullHeight, mp.height)>>,
                    <<"locale", mp.locale>>,
                    <<"colorTheme", mp.colorTheme>>,
                    <<"isTransparent", mp.isTransparent>> >>,
      reads |-> SizeReads(mp.autosize, "width") \cup SizeReads(mp.autosize, "height")
                  \cup {"symbol", "locale", "colorTheme", "isTransparent"}]

TopStoriesProps ==
  {"width", "height", "colorTheme", "locale", "displayMode", "autosize",
   "isTransparent", "onError", "feedMode", "symbol"}

TopStoriesDefaults ==
  [width |-> Str("full"), height |-> Str("full"), locale |-> Str("en"),
   colorTheme |-> Str("light"), feedMode |-> Str("all_symbols"),
   displayMode |-> Str("adaptive"), autosize |-> Bool(TRUE),
   isTransparent |-> Bool(FALSE)]

TopStoriesEffectAlwaysSymbol(mp) ==
  LET fullWidth == IsFull(mp.autosize, mp.width)
      fullHeight == IsFull(mp.autosize, mp.height)
  IN [cw |-> SizeStyle(fullWidth, mp.width), rw |-> SizeStyle(fullWidth, mp.width),
      setsHeight |-> TRUE,
      ch |-> SizeStyle(fullHeight, mp.height), rh |-> SizeStyle(fullHeight, mp.height),
      src |-> "https://s3.tradingview.com/external-embedding/embed-widget-timeline.js",
      config |-> << <<"width", SizeField(fullWidth, mp.width)>>,
                    <<"height", SizeField(fullHeight, mp.height)>>,
                    <<"locale", mp.locale>>,
                    <<"colorTheme", mp.colorTheme>>,
                    <<"feedMode", mp.feedMode>>,
                    <<"displayMode", mp.displayMode>>,
                    <<"isTransparent", mp.isTransparent>>,
                    <<"symbol", mp.symbol>> >>,
      reads |-> SizeReads(mp.autosize, "width") \cup SizeReads(mp.autosize, "height")
                  \cup {"locale", "colorTheme", "feedMode", "displayMode",
                        "isTransparent", "symbol"}]

TopStoriesEffect(mp) ==
  LET fullWidth == IsFull(mp.autosize, mp.width)
      fullHeight == IsFull(mp.autosize, mp.height)
      widgetConfig == << <<"width", SizeField(fullWidth, mp.width)>>,
                         <<"height", SizeField(fullHeight, mp.height)>>,
                         <<"locale", mp.locale>>,
                         <<"colorTheme", mp.colorTheme>>,
                         <<"feedMode", mp.feedMode>>,
                         <<"displayMode", mp.displayMode>>,
                         <<"isTransparent", mp.isTransparent>> >>
      symbolMode == mp.feedMode = Str("symbol")
  IN [cw |-> SizeStyle(fullWidth, mp.width), rw |-> SizeStyle(fullWidth, mp.width),
      setsHeight |-> TRUE,
      ch |-> SizeStyle(fullHeight, mp.height), rh |-> SizeStyle(fullHeight, mp.height),
      src |-> "https://s3.tradingview.com/external-embedding/embed-widget-timeline.js",
      config |-> IF symbolMode THEN Append(widgetConfig, <<"symbol", mp.symbol>>)
                 ELSE widgetConfig,
      reads |-> SizeReads(mp.autosize, "width") \cup SizeReads(mp.autosize, "height")
                  \cup {"locale", "colorTheme", "feedMode", "displayMode", "isTransparent"}
                  \cup (IF symbolMode THEN {"symbol"} ELSE {})]

SingleTickerProps == {"symbol", "width", "colorTheme", "locale", "isTransparent", "onError"}

SingleTickerDefaults ==
  [width |-> Str("full"), locale |-> Str("en"), colorTheme |-> Str("light"),
   isTransparent |-> Bool(FALSE)]

SingleTickerEffect(mp) ==
  LET full == mp.width = Str("full")
  IN [cw |-> SizeStyle(full, mp.width), rw |-> SizeStyle(full, mp.width),
      setsHeight |-> FALSE, ch |-> "", rh |-> "",
      src |-> "https://s3.tradingview.com/external-embedding/embed-widget-single-quote.js",
      config |-> << <<"symbol", mp.symbol>>,
                    <<"width", SizeField(full, mp.width)>>,
                    <<"locale", mp.locale>>,
                    <<"colorTheme", mp.colorTheme>>,
                    <<"isTransparent", mp.isTransparent>> >>,
      reads |-> {"width", "symbol", "locale", "colorTheme", "isTransparent"}]

SymbolInfoProps == {"symbol", "width", "locale", "colorTheme", "isTransparent", "onError"}

SymbolInfoDefaults ==
  [width |-> Str("full"), locale |-> Str("en"), colorTheme |-> Str("light"),
   isTransparent |-> Bool(FALSE)]

SymbolInfoEffect(mp) ==
  LET full == mp.width = Str("full")
  IN [cw |-> SizeStyle(full, mp.width), rw |-> SizeStyle(full, mp.width),
      setsHeight |-> FALSE, ch |-> "", rh |-> "",
      src |-> "https://s3.tradingview.com/external-embedding/embed-widget-symbol-info.js",
      config |-> << <<"symbol", mp.symbol>>,
                    <<"width", SizeField(full, mp.width)>>,
                    <<"locale", mp.locale>>,
                    <<"colorTheme", mp.colorTheme>>,
                    <<"isTransparent", mp.isTransparent>> >>,
      reads |-> {"width", "symbol", "locale", "colorTheme", "isTransparent"}]

\* array.map(f)
ArrayMap(f(_), arr) == Arr([x \in DOMAIN arr.items |-> f(arr.items[x])])

ScreenerProps ==
  {"width", "height", "colorTheme", "locale", "exchange", "defaultColumnView",
   "defaultScreenView", "autosize", "isTransparent", "showTopToolbar", "onError"}

ScreenerDefaults ==
  [width |-> Str("full"), height |-> Str("full"), locale |-> Str("en"),
   colorTheme |-> Str("light"), exchange |-> Str("america"),
   defaultColumnView |-> Str("overview"), defaultScreenView |-> Str("most_capitalized"),
   autosize |-> Bool(TRUE), isTransparent |-> Bool(FALSE), showTopToolbar |-> Bool(TRUE)]

ScreenerEffect(mp) ==
  LET fullWidth == IsFull(mp.autosize, mp.width)
      fullHeight == IsFull(mp.autosize, mp.height)
  IN [cw |-> SizeStyle(fullWidth, mp.width), rw |-> SizeStyle(fullWidth, mp.width),
      setsHeight |-> TRUE,
      ch |-> SizeStyle(fullHeight, mp.height), rh |-> SizeStyle(fullHeight, mp.height),
      src |-> "https://s3.tradingview.com/external-embedding/embed-widget-screener.js",
      config |-> << <<"width", SizeField(fullWidth, mp.width)>>,
                    <<"height", SizeField(fullHeight, mp.height)>>,
                    <<"locale", mp.locale>>,
                    <<"colorTheme", mp.colorTheme>>,
                    <<"isTransparent", mp.isTransparent>>,
                    <<"showTopToolbar", mp.showTopToolbar>>,
                    <<"market", mp.exchange>>,
                    <<"defaultColumn", mp.defaultColumnView>>,
                    <<"defaultScreen", mp.defaultScreenView>> >>,
      reads |-> SizeReads(mp.autosize, "width") \cup SizeReads(mp.autosize, "height")
                  \cup {"locale", "colorTheme", "isTransparent", "showTopToolbar",
                        "exchange", "defaultColumnView", "defaultScreenView"}]

CryptoMarketProps ==
  {"width", "height", "colorTheme", "locale", "displayCurrency", "autosize",
   "isTransparent", "onError"}

CryptoMarketDefaults ==
  [width |-> Str("full"), height |-> Str("full"), locale |-> Str("en"),
   colorTheme |-> Str("light"), displayCurrency |-> Str("USD"), autosize |-> Bool(TRUE),
   isTransparent |-> Bool(FALSE)]

CryptoMarketEffect(mp) ==
  LET fullWidth == IsFull(mp.autosize, mp.width)
      fullHeight == IsFull(mp.autosize, mp.height)
  IN [cw |-> SizeStyle(fullWidth, mp.width), rw |-> SizeStyle(fullWidth, mp.width),
      setsHeight |-> TRUE,
      ch |-> SizeStyle(fullHeight, mp.height), rh |-> SizeStyle(fullHeight, mp.height),
      src |-> "https://s3.tradingview.com/external-embedding/embed-widget-screener.js",
      config |-> << <<"screener_type", Str("crypto_mkt")>>,
                    <<"width", SizeField(fullWidth, mp.width)>>,
                    <<"height", SizeField(fullHeight, mp.height)>>,
                    <<"locale", mp.locale>>,
                    <<"colorTheme", mp.colorTheme>>,
                    <<"displayCurrency", mp.displayCurrency>>,
                    <<"isTransparent", mp.isTransparent>> >>,
      reads |-> SizeReads(mp.autosize, "width") \cup SizeReads(mp.autosize, "height")
                  \cup {"locale", "colorTheme", "displayCurrency", "isTransparent"}]

AdvancedChartProps ==
  {"symbol", "colorTheme", "width", "height", "locale", "backgroundColor", "gridColor",
   "interval", "timezone", "chartStyle", "indicators", "watchlist", "compareSymbols",
   "autosize", "allowSymbolChange", "showBottomToolbar", "showDetails",
   "showDrawingToolsBar", "showHotlist", "showSaveImageButton", "showSymbolDescription",
   "showTopToolbar", "showVolume", "onError"}

AdvancedChartDefaults ==
  [width |-> Num(400), height |-> Num(300), locale |-> Str("en"),
   colorTheme |-> Str("light"), interval |-> Str("1"), timezone |-> Str("Etc/UTC"),
   chartStyle |-> Str("candles"), indicators |-> Arr(<< >>), watchlist |-> Arr(<< >>),
   compareSymbols |-> Arr(<< >>), autosize |-> Bool(TRUE),
   allowSymbolChange |-> Bool(TRUE), showBottomToolbar |-> Bool(FALSE),
   showDetails |-> Bool(FALSE), showDrawingToolsBar |-> Bool(TRUE),
   showHotlist |-> Bool(FALSE), showSaveImageButton |-> Bool(FALSE),
   showSymbolDescription |-> Bool(TRUE), showTopToolbar |-> Bool(TRUE),
   showVolume |-> Bool(TRUE)]

AdvancedChartEffect(mp) ==
  LET auto == Truthy(mp.autosize)
      study(indicator) == Index(IndicatorMap, indicator)
  IN [cw |-> SizeStyle(auto, mp.width), rw |-> SizeStyle(auto, mp.width),
      setsHeight |-> TRUE,
      ch |-> SizeStyle(auto, mp.height), rh |-> SizeStyle(auto, mp.height),
      src |-> "https://s3.tradingview.com/external-embedding/embed-widget-advanced-chart.js",
      config |-> << <<"symbol", mp.symbol>>,
                    <<"width", SizeField(auto, mp.width)>>,
                    <<"height", SizeField(auto, mp.height)>>,
                    <<"interval", mp.interval>>,
                    <<"locale", mp.locale>>,
                    <<"theme", mp.colorTheme>>,
                    <<"timezone", mp.timezone>>,
                    <<"style", mp.chartStyle>>,
                    <<"backgroundColor", mp.backgroundColor>>,
                    <<"gridColor", mp.gridColor>>,
                    <<"studies", ArrayMap(study, mp.indicators)>>,
                    <<"watchlist", mp.watchlist>>,
                    <<"compare_symbols", mp.compareSymbols>>,
                    <<"allow_symbol_change", mp.allowSymbolChange>>,
                    <<"withdateranges", mp.showBottomToolbar>>,
                    <<"details", mp.showDetails>>,
                    <<"hide_side_toolbar", Not(mp.showDrawingToolsBar)>>,
                    <<"hotlist", mp.showHotlist>>,
                    <<"save_image", mp.showSaveImageButton>>,
                    <<"hide_legend", Not(mp.showSymbolDescription)>>,
                    <<"hide_top_toolbar", Not(mp.showTopToolbar)>>,
                    <<"hide_volume", Not(mp.showVolume)>>,
                    <<"support_host", Str("https://www.tradingview.com")>> >>,
      reads |-> SizeReads(mp.autosize, "width") \cup SizeReads(mp.autosize, "height")
                  \cup (AdvancedChartProps \ {"width", "height", "autosize", "onError"})]

\* The characters of rest scanned from the left, part being the segment read
\* so far: every ":" closes a segment.
RECURSIVE SplitFrom(_, _)
SplitFrom(rest, part) ==
  IF rest = "" THEN <<part>>
  ELSE IF SubSeq(rest, 1, 1) = ":" THEN <<part>> \o SplitFrom(Tail(rest), "")
  ELSE SplitFrom(Tail(rest), part \o SubSeq(rest, 1, 1))

SplitColonOnce(s) ==
  LET parts == SplitFrom(s, "")
      RECURSIVE Glue(_)
      Glue(ps) == IF Len(ps) = 1 THEN ps[1] ELSE ps[1] \o ":" \o Glue(Tail(ps))
  IN IF Len(parts) > 2 THEN <<parts[1], Glue(Tail(parts))>> ELSE parts

\* symbol.split(":")
SplitColon(s) == SplitFrom(s, "")

SymbolOverviewProps ==
  {"symbols", "width", "height", "locale", "scaleMode", "scalePosition", "colorTheme",
   "chartType", "valueTrackingMode", "compareSymbol", "lineType", "headerFontSize",
   "changeMode", "timeFormat", "lineWidth", "fontSize", "fontColor", "trendLineColor",
   "underLineColor", "underLineBottomColor", "autosize", "isTransparent",
   "showTimeScale", "showHeader", "color", "lineColor", "topColor", "bottomColor",
   "upColor", "downColor", "borderUpColor", "borderDownColor", "wickUpColor",
   "wickDownColor", "gridLineColor", "widgetFontColor", "backgroundColor", "showVolume",
   "volumeUpColor", "volumeDownColor", "showDateRanges", "showSymbolLogo",
   "showMarketStatus", "showMA", "maLineColor", "maLineWidth", "maLength", "onError"}

SymbolOverviewDefaults ==
  [width |-> Str("full"), height |-> Str("full"), locale |-> Str("en"),
   scaleMode |-> Str("normal"), scalePosition |-> Str("right"),
   colorTheme |-> Str("light"), chartType |-> Str("line"),
   valueTrackingMode |-> Str("floating_tooltip"), lineType |-> Str("simple"),
   headerFontSize |-> Str("small"), changeMode |-> Str("price-and-percent"),
   timeFormat |-> Str("12h"), lineWidth |-> Num(2), showHeader |-> Bool(TRUE),
   showSymbolLogo |-> Bool(TRUE), showMarketStatus |-> Bool(TRUE),
   showDateRanges |-> Bool(TRUE), fontSize |-> Num(10), autosize |-> Bool(TRUE),
   showTimeScale |-> Bool(TRUE), isTransparent |-> Bool(FALSE),
   chartOnly |-> Bool(FALSE), showVolume |-> Bool(FALSE), showMA |-> Bool(FALSE),
   maLineColor |-> Str("blue"), maLineWidth |-> Num(1), maLength |-> Num(9)]

SymbolOverviewEffect(mp) ==
  LET fullWidth == IsFull(mp.autosize, mp.width)
      fullHeight == IsFull(mp.autosize, mp.height)
      entry(symbol) ==
        LET parts == SplitColon(symbol.s)
            displayName == IF Len(parts) > 1 THEN parts[2] ELSE symbol.s
        IN Arr(<<Str(displayName), Str(symbol.s \o "|1D")>>)
  IN [cw |-> SizeStyle(fullWidth, mp.width), rw |-> SizeStyle(fullWidth, mp.width),
      setsHeight |-> TRUE,
      ch |-> SizeStyle(fullHeight, mp.height), rh |-> SizeStyle(fullHeight, mp.height),
      src |-> "https://s3.tradingview.com/external-embedding/embed-widget-symbol-overview.js",
      config |-> << <<"autosize", mp.autosize>>,
                    <<"width", SizeField(fullWidth, mp.width)>>,
                    <<"height", SizeField(fullHeight, mp.height)>>,
                    <<"locale", mp.locale>>,
                    <<"noTimeScale", Not(mp.showTimeScale)>>,
                    <<"colorTheme", mp.colorTheme>>,
                    <<"scalePosition", mp.scalePosition>>,
                    <<"scaleMode", Index(ScaleModeMap, mp.scaleMode)>>,
                    <<"lineWidth", mp.lineWidth>>,
                    <<"lineType", Index(LineTypeMap, mp.lineType)>>,
                    <<"chartType", Index(ChartTypeMap, mp.chartType)>>,
                    <<"valuesTracking", Index(ValueTrackingModeMap, mp.valueTrackingMode)>>,
                    <<"timeHoursFormat", Index(TimeFormatMap, mp.timeFormat)>>,
                    <<"headerFontSize", mp.headerFontSize>>,
                    <<"hideDateRanges", Not(mp.showDateRanges)>>,
                    <<"hideMarketStatus", Not(mp.showMarketStatus)>>,
                    <<"hideSymbolLogo", Not(mp.showSymbolLogo)>>,
                    <<"fontSize", mp.fontSize>>,
                    <<"fontColor", mp.fontColor>>,
                    <<"showVolume", mp.showVolume>>,
                    <<"volumeUpColor", mp.volumeUpColor>>,
                    <<"volumeDownColor", mp.volumeDownColor>>,
                    <<"showMA", mp.showMA>>,
                    <<"maLineColor", mp.maLineColor>>,
                    <<"maLineWidth", mp.maLineWidth>>,
                    <<"maLength", mp.maLength>>,
                    <<"symbols", ArrayMap(entry, mp.symbols)>>,
                    <<"chartOnly", Not(mp.showHeader)>>,
                    <<"trendLineColor", mp.trendLineColor>>,
                    <<"underLineColor", mp.underLineColor>>,
                    <<"underLineBottomColor", mp.underLineBottomColor>>,
                    <<"isTransparent", mp.isTransparent>>,
                    <<"color", mp.color>>,
                    <<"lineColor", mp.lineColor>>,
                    <<"topColor", mp.topColor>>,
                    <<"bottomColor", mp.bottomColor>>,
                    <<"upColor", mp.upColor>>,
                    <<"downColor", mp.downColor>>,
                    <<"borderUpColor", mp.borderUpColor>>,
                    <<"borderDownColor", mp.borderDownColor>>,
                    <<"wickUpColor", mp.wickUpColor>>,
                    <<"wickDownColor", mp.wickDownColor>>,
                    <<"gridLineColor", mp.gridLineColor>>,
                    <<"widgetFontColor", mp.widgetFontColor>>,
                    <<"backgroundColor", mp.backgroundColor>>,
                    <<"changeMode", mp.changeMode>>,
                    <<"dateRanges", Arr(<<Str("1d|1"), Str("1m|30"), Str("3m|60"),
                                          Str("12m|1D"), Str("60m|1W"), Str("all|1M")>>)>> >>,
      reads |-> SizeReads(mp.autosize, "width") \cup SizeReads(mp.autosize, "height")
                  \cup (SymbolOverviewProps
                          \ {"width", "height", "compareSymbol", "onError"})]

SetOfKeepsAll(items) == items

\* new Set(items): the distinct items, in the order of their first occurrence.
RECURSIVE SetOf(_)
SetOf(items) ==
  IF items = << >> THEN << >>
  ELSE LET init == SetOf(SubSeq(items, 1, Len(items) - 1))
           last == items[Len(items)]
       IN IF \E x \in DOMAIN init : init[x] = last THEN init ELSE Append(init, last)

\* new Array(...items): a single number argument is a length, not an element.
NewArray(items) ==
  IF Len(items) = 1 /\ items[1].tag = "number" THEN [x \in 1..items[1].n |-> Undef]
  ELSE items

\* items.join(sep): undefined elements are written as the empty string.
RECURSIVE Join(_, _)
Join(items, sep) ==
  IF items = << >> THEN ""
  ELSE LET text(v) == IF v.tag = "undefined" THEN "" ELSE TemplateString(v)
       IN IF Len(items) = 1 THEN text(items[1])
          ELSE text(Head(items)) \o sep \o Join(Tail(items), sep)

EconomicCalendarProps ==
  {"width", "height", "locale", "colorTheme", "countries", "autosize",
   "showHighImportanceOnly", "isTransparent", "onError"}

EconomicCalendarDefaults ==
  [width |-> Str("full"), height |-> Str("full"), locale |-> Str("en"),
   colorTheme |-> Str("light"), countries |-> Arr(<< >>), autosize |-> Bool(TRUE),
   showHighImportanceOnly |-> Bool(FALSE), isTransparent |-> Bool(FALSE)]

EconomicCalendarEffectAllImportance(mp) ==
  LET fullWidth == IsFull(mp.autosize, mp.width)
      fullHeight == IsFull(mp.autosize, mp.height)
      countries == Arr(NewArray(SetOf(mp.countries.items)))
      code(country) == Index(CountryMap, country)
  IN [cw |-> SizeStyle(fullWidth, mp.width), rw |-> SizeStyle(fullWidth, mp.width),
      setsHeight |-> TRUE,
      ch |-> SizeStyle(fullHeight, mp.height), rh |-> SizeStyle(fullHeight, mp.height),
      src |-> "https://s3.tradingview.com/external-embedding/embed-widget-events.js",
      config |-> << <<"autosize", mp.autosize>>,
                    <<"width", SizeField(fullWidth, mp.width)>>,
                    <<"height", SizeField(fullHeight, mp.height)>>,
                    <<"locale", mp.locale>>,
                    <<"colorTheme", mp.colorTheme>>,
                    <<"importanceFilter",
                      Str("-1,0,1")>>,
                    <<"isTransparent", mp.isTransparent>>,
                    <<"countryFilter", Str(Join(ArrayMap(code, countries).items, ","))>> >>,
      reads |-> SizeReads(mp.autosize, "width") \cup SizeReads(mp.autosize, "height")
                  \cup {"autosize", "locale", "colorTheme", "showHighImportanceOnly",
                        "isTransparent", "countries"}]

EconomicCalendarEffect(mp) ==
  LET fullWidth == IsFull(mp.autosize, mp.width)
      fullHeight == IsFull(mp.autosize, mp.height)
      countries == Arr(NewArray(SetOf(mp.countries.items)))
      code(country) == Index(CountryMap, country)
  IN [cw |-> SizeStyle(fullWidth, mp.width), rw |-> SizeStyle(fullWidth, mp.width),
      setsHeight |-> TRUE,
      ch |-> SizeStyle(fullHeight, mp.height), rh |-> SizeStyle(fullHeight, mp.height),
      src |-> "https://s3.tradingview.com/external-embedding/embed-widget-events.js",
      config |-> << <<"autosize", mp.autosize>>,
                    <<"width", SizeField(fullWidth, mp.width)>>,
                    <<"height", SizeField(fullHeight, mp.height)>>,
                    <<"locale", mp.locale>>,
                    <<"colorTheme", mp.colorTheme>>,
                    <<"importanceFilter",
                      IF Truthy(mp.showHighImportanceOnly) THEN Str("0,1")
                      ELSE Str("-1,0,1")>>,
                    <<"isTransparent", mp.isTransparent>>,
                    <<"countryFilter", Str(Join(ArrayMap(code, countries).items, ","))>> >>,
      reads |-> SizeReads(mp.autosize, "width") \cup SizeReads(mp.autosize, "height")
                  \cup {"autosize", "locale", "colorTheme", "showHighImportanceOnly",
                        "isTransparent", "countries"}]

\* Dispatch on the component an instance is.
PropsOf(w) ==
  CASE w = "TechnicalAnalysis" -> TechnicalAnalysisProps
    [] w = "MiniChart" -> MiniChartProps
    [] w = "FundamentalData" -> FundamentalDataProps
    [] w = "CompanyProfile" -> CompanyProfileProps
    [] w = "TopStories" -> TopStoriesProps
    [] w = "SingleTicker" -> SingleTickerProps
    [] w = "SymbolInfo" -> SymbolInfoProps
    [] w = "Screener" -> ScreenerProps
    [] w = "CryptoMarket" -> CryptoMarketProps
    [] w = "AdvancedChart" -> AdvancedChartProps
    [] w = "SymbolOverview" -> SymbolOverviewProps
    [] w = "EconomicCalendar" -> EconomicCalendarProps

DefaultsOf(w) ==
  CASE w = "TechnicalAnalysis" -> TechnicalAnalysisDefaults
    [] w = "MiniChart" -> MiniChartDefaults
    [] w = "FundamentalData" -> FundamentalDataDefaults
    [] w = "CompanyProfile" -> CompanyProfileDefaults
    [] w = "TopStories" -> TopStoriesDefaults
    [] w = "SingleTicker" -> SingleTickerDefaults
    [] w = "SymbolInfo" -> SymbolInfoDefaults
    [] w = "Screener" -> ScreenerDefaults
    [] w = "CryptoMarket" -> CryptoMarketDefaults
    [] w = "AdvancedChart" -> AdvancedChartDefaults
    [] w = "SymbolOverview" -> SymbolOverviewDefaults
    [] w = "EconomicCalendar" -> EconomicCalendarDefaults

EffectOf(w, mp) ==
  CASE w = "TechnicalAnalysis" -> TechnicalAnalysisEffect(mp)
    [] w = "MiniChart" -> MiniChartEffect(mp)
    [] w = "FundamentalData" -> FundamentalDataEffect(mp)
    [] w = "CompanyProfile" -> CompanyProfileEffect(mp)
    [] w = "TopStories" -> TopStoriesEffect(mp)
    [] w = "SingleTicker" -> SingleTickerEffect(mp)
    [] w = "SymbolInfo" -> SymbolInfoEffect(mp)
    [] w = "Screener" -> ScreenerEffect(mp)
    [] w = "CryptoMarket" -> CryptoMarketEffect(mp)
    [] w = "AdvancedChart" -> AdvancedChartEffect(mp)
    [] w = "SymbolOverview" -> SymbolOverviewEffect(mp)
    [] w = "EconomicCalendar" -> EconomicCalendarEffect(mp)

\* The default each doc comment of the props type documents (@default).
TechnicalAnalysisDocumented ==
  [width |-> Str("full"), height |-> Str("full"), locale |-> Str("en"),
   displayMode |-> Str("single"), interval |-> Str("5m"),
   colorTheme |-> Str("light"), autosize |-> Bool(TRUE),
   showIntervalTabs |-> Bool(FALSE), isTransparent |-> Bool(FALSE)]

MiniChartDocumented ==
  [width |-> Str("full"), height |-> Str("full"), locale |-> Str("en"),
   dateRange |-> Str("1M"), colorTheme |-> Str("light"), autosize |-> Bool(TRUE),
   isTransparent |-> Bool(FALSE), chartOnly |-> Bool(FALSE),
   noTimeScale |-> Bool(FALSE)]

FundamentalDataDocumented ==
  [width |-> Str("full"), height |-> Str("full"), colorTheme |-> Str("light"),
   locale |-> Str("en"), displayMode |-> Str("adaptive"), autosize |-> Bool(TRUE),
   isTransparent |-> Bool(FALSE)]

CompanyProfileDocumented ==
  [width |-> Str("full"), height |-> Str("full"), colorTheme |-> Str("light"),
   locale |-> Str("en"), autosize |-> Bool(TRUE), isTransparent |-> Bool(FALSE)]

TopStoriesDocumented ==
  [width |-> Str("full"), height |-> Str("full"), colorTheme |-> Str("light"),
   locale |-> Str("en"), displayMode |-> Str("adaptive"), autosize |-> Bool(TRUE),
   isTransparent |-> Bool(FALSE)]

SingleTickerDocumented ==
  [width |-> Str("full"), colorTheme |-> Str("light"), locale |-> Str("en"),
   isTransparent |-> Bool(FALSE)]

SymbolInfoDocumented ==
  [width |-> Str("full"), locale |-> Str("en"), colorTheme |-> Str("light"),
   isTransparent |-> Bool(FALSE)]

ScreenerDocumented ==
  [width |-> Str("full"), height |-> Str("full"), colorTheme |-> Str("light"),
   locale |-> Str("en"), exchange |-> Str("america"),
   defaultColumnView |-> Str("overview"), defaultScreenView |-> Str("general"),
   autosize |-> Bool(TRUE), isTransparent |-> Bool(FALSE),
   showTopToolbar |-> Bool(TRUE)]

CryptoMarketDocumented ==
  [width |-> Str("full"), height |-> Str("full"), colorTheme |-> Str("light"),
   locale |-> Str("en"), displayCurrency |-> Str("USD"), autosize |-> Bool(TRUE),
   isTransparent |-> Bool(FALSE)]

AdvancedChartDocumented ==
  [colorTheme |-> Str("light"), width |-> Num(400), height |-> Num(300),
   locale |-> Str("en"), interval |-> Str("1"), timezone |-> Str("Etc/UTC"),
   chartStyle |-> Str("candles"), autosize |-> Bool(TRUE),
   allowSymbolChange |-> Bool(TRUE), showBottomToolbar |-> Bool(FALSE),
   showDetails |-> Bool(FALSE), showDrawingToolsBar |-> Bool(TRUE),
   showHotlist |-> Bool(FALSE), showSaveImageButton |-> Bool(FALSE),
   showSymbolDescription |-> Bool(TRUE), showTopToolbar |-> Bool(TRUE),
   showVolume |-> Bool(TRUE)]

SymbolOverviewDocumented ==
  [lineWidth |-> Num(1)]

EconomicCalendarDocumented ==
  [width |-> Str("full"), height |-> Str("full"), locale |-> Str("en"),
   colorTheme |-> Str("light"), countries |-> Arr(<< >>), autosize |-> Bool(TRUE),
   showHighImportanceOnly |-> Bool(FALSE), isTransparent |-> Bool(FALSE)]

DocumentedOf(w) ==
  CASE w = "TechnicalAnalysis" -> TechnicalAnalysisDocumented
    [] w = "MiniChart" -> MiniChartDocumented
    [] w = "FundamentalData" -> FundamentalDataDocumented
    [] w = "CompanyProfile" -> CompanyProfileDocumented
    [] w = "TopStories" -> TopStoriesDocumented
    [] w = "SingleTicker" -> SingleTickerDocumented
    [] w = "SymbolInfo" -> SymbolInfoDocumented
    [] w = "Screener" -> ScreenerDocumented
    [] w = "CryptoMarket" -> CryptoMarketDocumented
    [] w = "AdvancedChart" -> AdvancedChartDocumented
    [] w = "SymbolOverview" -> SymbolOverviewDocumented
    [] w = "EconomicCalendar" -> EconomicCalendarDocumented

(***************************************************************************)
(* Inputs: the values the parent may pass for a prop (Undef = omitted),    *)
(* and the errors a script load may be rejected with.                      *)
(***************************************************************************)
\* The Error object the load of generation g is rejected with, when it fails.
ScriptError(g) == "Error: failed to load script #" \o ToString(g)
Errors == {ScriptError(g) : g \in 1..(MaxChanges + 1)}
Callbacks == {Fn("reportError"), Fn("logError")}

PropValues(w, k) ==
  CASE k = "symbol" -> {Str("NASDAQ:AAPL"), Str("NYSE:TSLA")}
                         \cup (IF w = "TopStories" THEN {Undef} ELSE {})
    [] k = "width" -> {Undef, Num(800)}
    [] k = "height" -> {Undef, Num(600)}
    [] k = "autosize" -> {Undef, Bool(FALSE)}
    [] k = "feedMode" -> {Undef, Str("symbol")}
    [] k = "onError" -> {Undef} \cup Callbacks
    [] OTHER -> {Undef}

\* The pages considered: which two components the page renders.
Pages ==
  {<<"TechnicalAnalysis", "CompanyProfile">>, <<"MiniChart", "FundamentalData">>,
   <<"TopStories", "SingleTicker">>, <<"SymbolInfo", "SingleTicker">>}

\* <Widget symbol="NASDAQ:AAPL" />, <SymbolOverview symbols={["NASDAQ:AAPL"]} />,
\* and <TopStories /> for the news widget.
InitialProps(w) ==
  [k \in PropsOf(w) |->
     IF k = "symbol" /\ w # "TopStories" THEN Str("NASDAQ:AAPL")
     ELSE IF k = "symbols" THEN Arr(<<Str("NASDAQ:AAPL")>>)
     ELSE Undef]

(***************************************************************************)
(* State.  A widget root is identified by its generation g: the g-th root  *)
(* the instance created.                                                   *)
(***************************************************************************)
VARIABLES
  widget,     \* [Inst -> Widgets]: the component each instance is
  props,      \* [Inst -> props]: the props the parent currently passes
  phase,      \* [Inst -> {"constructed", "mounted", "disposed"}]
  deps,       \* [Inst -> set of props the effect subscribed to in its last run]
  cleanups,   \* [Inst -> Seq(generation)]: cleanups registered by the last run
  container,  \* [Inst -> [children, width, height]]: the outer <div>
  widgetRoot, \* [Inst -> root]: the root created by the last run of the effect
  created,    \* [Inst -> Nat]: roots created so far (document.createElement)
  load,       \* [Inst -> Seq("pending" | "loaded" | error)]: loadScript promises
  calls,      \* [Inst -> Seq(Seq(call))]: onError invocations, by generation
  rejected,   \* [Inst -> BOOLEAN]: a downloadScript promise was rejected
  peak,       \* [Inst -> Nat]: most roots ever held at once by the container
  nchanges,   \* [Inst -> Nat]: configuration changes applied
  ntracked,   \* [Inst -> Nat]: those that changed a prop the last run had read
  kind,       \* the component whose mapper is exercised on its own
  cfg,        \* the props that component is given
  rendered,   \* what the last run of its effect left: styles, script, payload
  trail       \* Seq(<<width, height>>): the container styles after each run

\* The state of a page, and the state of a component taken on its own.
pageVars ==
  <<widget, props, phase, deps, cleanups, container, widgetRoot, created, load, calls,
    rejected, peak, nchanges, ntracked>>
mapperVars == <<kind, cfg, rendered, trail>>

vars == <<pageVars, mapperVars>>

Max(a, b) == IF a >= b THEN a ELSE b
Remove(seq, g) == SelectSeq(seq, LAMBDA x : x # g)
NotRendered ==
  [cw |-> "", rw |-> "", ch |-> "", rh |-> "", src |-> "", config |-> << >>,
   textContent |-> "", deps |-> {}, runs |-> 0]
NoRoot == [gen |-> 0, class |-> "", width |-> "", height |-> "",
           script |-> [src |-> "", textContent |-> ""]]
Live(i) == container[i].children

(***************************************************************************)
(* The pieces of the effect.                                               *)
(***************************************************************************)
containerShared(i) == CHOOSE j \in Inst : \A x \in Inst : x <= j

\* let container!: HTMLDivElement; ... ref={container}: each instance holds
\* its own outer <div>.
containerOf(i) == i

appendChildMissing(children, g) == children

\* container.appendChild(widgetRoot)
appendChild(children, g) == Append(children, g)

removeNothing(children, g) == children

\* widgetRoot.remove()
remove(children, g) == Remove(children, g)

onCleanupNotRegistered(g) == << >>

\* onCleanup(() => { widgetRoot.remove(); }): the cleanup of generation g is
\* registered with the running effect.
onCleanup(g) == <<g>>

\* Solid runs every registered cleanup of the effect before the effect runs
\* again and when its owner is disposed.
RECURSIVE RunCleanups(_, _)
RunCleanups(children, registered) ==
  IF registered = << >> THEN children
  ELSE RunCleanups(remove(children, Head(registered)), Tail(registered))

\* loadScript(src, { textContent }, widgetRoot): the <script> element put in
\* the widget root; the promise it returns starts pending.
loadScript(src, textContent) == [src |-> src, textContent |-> textContent]

tryCatchRethrows(outcome) == [error |-> "null", reject |-> outcome \in Errors]

\* tryCatch(promise): a rejection becomes the first element of the result
\* and the awaited promise never rejects.
tryCatch(outcome) ==
  IF outcome \in Errors THEN [error |-> outcome, reject |-> FALSE]
  ELSE [error |-> "null", reject |-> FALSE]

\* One run of the effect body for instance i under props p; dom is the
\* page's containers once the cleanups of the previous run have run.
createEffect(i, p, dom) ==
  LET mp == mergeProps(DefaultsOf(widget[i]), p)
      e == EffectOf(widget[i], mp)
      g == created[i] + 1
      c == containerOf(i)
  IN [container |-> [dom EXCEPT
                       ![c] = [children |-> appendChild(dom[c].children, g),
                               width |-> e.cw,
                               height |-> IF e.setsHeight THEN e.ch ELSE dom[c].height]],
      root |-> [gen |-> g, class |-> WidgetRootClass, width |-> e.rw, height |-> e.rh,
                script |-> loadScript(e.src, JSONStringify(e.config))],
      deps |-> e.reads,
      cleanups |-> onCleanup(g)]

ApplyRunSettlesAtOnce(i, r) ==
  LET g == r.root.gen
      onError == mergeProps(DefaultsOf(widget[i]), props[i]).onError
  IN /\ container' = r.container
     /\ widgetRoot' = [widgetRoot EXCEPT ![i] = r.root]
     /\ created' = [created EXCEPT ![i] = g]
     /\ load' = [load EXCEPT ![i] = Append(@, ScriptError(g))]
     /\ calls' = [calls EXCEPT ![i] =
                    Append(@, IF onError = Undef THEN << >>
                              ELSE <<[cb |-> onError, error |-> ScriptError(g),
                                      attached |-> TRUE]>>)]
     /\ deps' = [deps EXCEPT ![i] = r.deps]
     /\ cleanups' = [cleanups EXCEPT ![i] = r.cleanups]
     /\ peak' = [j \in Inst |-> Max(peak[j], Len(r.container[j].children))]

\* The state after a run r of the effect of instance i: the DOM it left, the
\* load it started (pending: its outcome is observed by the continuation of
\* downloadScript after the await), its subscriptions and its cleanup.
ApplyRun(i, r) ==
  /\ container' = r.container
  /\ widgetRoot' = [widgetRoot EXCEPT ![i] = r.root]
  /\ created' = [created EXCEPT ![i] = r.root.gen]
  /\ load' = [load EXCEPT ![i] = Append(@, "pending")]
  /\ calls' = [calls EXCEPT ![i] = Append(@, << >>)]
  /\ deps' = [deps EXCEPT ![i] = r.deps]
  /\ cleanups' = [cleanups EXCEPT ![i] = r.cleanups]
  /\ peak' = [j \in Inst |-> Max(peak[j], Len(r.container[j].children))]

\* The fields of its configuration a component's mapper reads under props
\* p: every prop but onError, the sizes only while autosize is off, and the
\* symbol of TopStories only in the "symbol" feed mode.
ReadByMapper(w, p) ==
  LET mp == mergeProps(DefaultsOf(w), p)
      sizesIgnored == "autosize" \in PropsOf(w) /\ Truthy(mp.autosize)
      symbolIgnored == w = "TopStories" /\ mp.feedMode # Str("symbol")
  IN {k \in PropsOf(w) :
        /\ k # "onError"
        /\ sizesIgnored => k \notin {"width", "height"}
        /\ symbolIgnored => k # "symbol"}

(***************************************************************************)
(* Actions.                                                                *)
(***************************************************************************)
Init ==
  /\ widget \in Pages
  /\ props = [i \in Inst |-> InitialProps(widget[i])]
  /\ phase = [i \in Inst |-> "constructed"]
  /\ deps = [i \in Inst |-> {}]
  /\ cleanups = [i \in Inst |-> << >>]
  /\ container = [i \in Inst |-> [children |-> << >>, width |-> "", height |-> ""]]
  /\ widgetRoot = [i \in Inst |-> NoRoot]
  /\ created = [i \in Inst |-> 0]
  /\ load = [i \in Inst |-> << >>]
  /\ calls = [i \in Inst |-> << >>]
  /\ rejected = [i \in Inst |-> FALSE]
  /\ peak = [i \in Inst |-> 0]
  /\ nchanges = [i \in Inst |-> 0]
  /\ ntracked = [i \in Inst |-> 0]
  /\ kind = "" /\ cfg = << >> /\ rendered = NotRendered /\ trail = << >>

\* The first run of the effect, right after the component rendered.
Mount(i) ==
  /\ phase[i] = "constructed"
  /\ ApplyRun(i, createEffect(i, props[i], container))
  /\ phase' = [phase EXCEPT ![i] = "mounted"]
  /\ UNCHANGED <<widget, props, rejected, nchanges, ntracked, mapperVars>>

TotalChanges == nchanges[1] + nchanges[2]

\* The re-run of the effect of instance i after its props became p: the
\* registered cleanups first, then the body.
Rerun(i, p) ==
  ApplyRun(i, createEffect(i, p,
    [container EXCEPT ![i].children = RunCleanups(container[i].children, cleanups[i])]))

ConfigChangeDeferred(i, k, v) ==
  /\ phase[i] # "constructed"
  /\ TotalChanges < MaxChanges
  /\ v # props[i][k]
  /\ props' = [props EXCEPT ![i][k] = v]
  /\ nchanges' = [nchanges EXCEPT ![i] = @ + 1]
  /\ ntracked' = [ntracked EXCEPT ![i] =
                    IF phase[i] = "mounted" /\ k \in ReadByMapper(widget[i], props[i])
                    THEN @ + 1 ELSE @]
  /\ IF phase[i] = "mounted" /\ k \in deps[i]
          /\ \A g \in DOMAIN load[i] : load[i][g] # "pending"
     THEN Rerun(i, props'[i])
     ELSE UNCHANGED <<container, widgetRoot, created, load, calls, deps, cleanups, peak>>
  /\ UNCHANGED <<widget, phase, rejected, mapperVars>>

ConfigChangeIgnoresTeardown(i, k, v) ==
  /\ phase[i] # "constructed"
  /\ TotalChanges < MaxChanges
  /\ v # props[i][k]
  /\ props' = [props EXCEPT ![i][k] = v]
  /\ nchanges' = [nchanges EXCEPT ![i] = @ + 1]
  /\ ntracked' = [ntracked EXCEPT ![i] =
                    IF phase[i] = "mounted" /\ k \in ReadByMapper(widget[i], props[i])
                    THEN @ + 1 ELSE @]
  /\ IF k \in deps[i] \/ (phase[i] = "disposed" /\ k # "onError")
     THEN Rerun(i, props'[i])
     ELSE UNCHANGED <<container, widgetRoot, created, load, calls, deps, cleanups, peak>>
  /\ UNCHANGED <<widget, phase, rejected, mapperVars>>

\* The parent sets prop k of instance i to v.  When the effect subscribed to
\* k in its last run it runs again at once.
ConfigChange(i, k, v) ==
  /\ phase[i] # "constructed"
  /\ TotalChanges < MaxChanges
  /\ v # props[i][k]
  /\ props' = [props EXCEPT ![i][k] = v]
  /\ nchanges' = [nchanges EXCEPT ![i] = @ + 1]
  /\ ntracked' = [ntracked EXCEPT ![i] =
                    IF phase[i] = "mounted" /\ k \in ReadByMapper(widget[i], props[i])
                    THEN @ + 1 ELSE @]
  /\ IF phase[i] = "mounted" /\ k \in deps[i]
     THEN Rerun(i, props'[i])
     ELSE UNCHANGED <<container, widgetRoot, created, load, calls, deps, cleanups, peak>>
  /\ UNCHANGED <<widget, phase, rejected, mapperVars>>

IsAttached(i, g) == \E x \in DOMAIN Live(i) : Live(i)[x] = g

InvokeOnErrorTwice(onError, error, attached) ==
  IF onError = Undef THEN << >>
  ELSE <<[cb |-> onError, error |-> error, attached |-> attached],
         [cb |-> onError, error |-> error, attached |-> attached]>>

InvokeOnErrorIfAttached(onError, error, attached) ==
  IF onError = Undef \/ ~attached THEN << >>
  ELSE <<[cb |-> onError, error |-> error, attached |-> attached]>>

\* _props.onError?.(error): the calls made, each with the callback, its
\* argument and whether the widget root of that generation is in the DOM.
InvokeOnError(onError, error, attached) ==
  IF onError = Undef THEN << >>
  ELSE <<[cb |-> onError, error |-> error, attached |-> attached]>>

downloadScriptDropsRoot(i, g, outcome) ==
  LET res == tryCatch(outcome)
      mp == mergeProps(DefaultsOf(widget[i]), props[i])
  IN [calls |-> IF res.error # "null"
                THEN InvokeOnError(mp.onError, res.error, IsAttached(i, g))
                ELSE << >>,
      rejected |-> res.reject,
      children |-> IF res.error # "null" THEN Remove(Live(i), g) ELSE Live(i)]

downloadScriptBoundAtSetup(i, g, outcome) ==
  LET res == tryCatch(outcome)
      mp == mergeProps(DefaultsOf(widget[i]), InitialProps(widget[i]))
  IN [calls |-> IF res.error # "null"
                THEN InvokeOnError(mp.onError, res.error, IsAttached(i, g))
                ELSE << >>,
      rejected |-> res.reject,
      children |-> Live(i)]

\* The continuation of downloadScript once the load of generation g settled:
\*   const [error] = await tryCatch(loadScript(...));
\*   if (error) _props.onError?.(error);
\* It touches nothing in the DOM.
downloadScript(i, g, outcome) ==
  LET res == tryCatch(outcome)
      mp == mergeProps(DefaultsOf(widget[i]), props[i])
  IN [calls |-> IF res.error # "null"
                THEN InvokeOnError(mp.onError, res.error, IsAttached(i, g))
                ELSE << >>,
      rejected |-> res.reject,
      children |-> Live(i)]

LoadSettles(i, g, outcome) ==
  /\ g \in DOMAIN load[i]
  /\ load[i][g] = "pending"
  /\ load' = [load EXCEPT ![i][g] = outcome]
  /\ LET d == downloadScript(i, g, outcome)
     IN /\ calls' = [calls EXCEPT ![i][g] = @ \o d.calls]
        /\ rejected' = [rejected EXCEPT ![i] = @ \/ d.rejected]
        /\ container' = [container EXCEPT ![i].children = d.children]
  /\ UNCHANGED <<widget, props, phase, deps, cleanups, widgetRoot, created,
                 peak, nchanges, ntracked, mapperVars>>

\* The owner of the component is disposed: the registered cleanups run and
\* the effect is unsubscribed for good.
Dispose(i) ==
  /\ phase[i] = "mounted"
  /\ phase' = [phase EXCEPT ![i] = "disposed"]
  /\ container' = [container EXCEPT
                     ![i].children = RunCleanups(container[i].children, cleanups[i])]
  /\ cleanups' = [cleanups EXCEPT ![i] = << >>]
  /\ deps' = [deps EXCEPT ![i] = {}]
  /\ UNCHANGED <<widget, props, widgetRoot, created, load, calls, rejected, peak,
                 nchanges, ntracked, mapperVars>>

Next ==
  \/ \E i \in Inst : Mount(i)
  \/ \E i \in Inst : \E k \in PropsOf(widget[i]) : \E v \in PropValues(widget[i], k) :
       ConfigChange(i, k, v)
  \/ \E i \in Inst : \E g \in 1..(MaxChanges + 1) : \E o \in {"loaded", ScriptError(g)} :
       LoadSettles(i, g, o)
  \/ \E i \in Inst : Dispose(i)

Spec == Init /\ [][Next]_vars

(***************************************************************************)
(* A component taken on its own: the props a parent may give it, the first *)
(* run of its effect, and the runs that follow a change of a size prop.    *)
(***************************************************************************)
MaxResizes == 2
MaxCountries == 3

\* base with the props of given that the component has.
WithProps(base, given) ==
  [k \in DOMAIN base |-> IF k \in DOMAIN given THEN given[k] ELSE base[k]]

\* The values of a size prop: omitted, "full", a pixel number (zero and a
\* negative one included).  The sizes of AdvancedChart are numbers.
SizeValues(w, k) ==
  IF k \notin PropsOf(w) THEN {Undef}
  ELSE CASE k = "width" -> {Undef, Num(800), Num(0), Num(-5)}
                             \cup (IF w = "AdvancedChart" THEN {} ELSE {Str("full")})
         [] k = "height" -> {Undef, Num(600)}
                              \cup (IF w = "AdvancedChart" THEN {} ELSE {Str("full")})
         [] k = "autosize" -> {Undef, Bool(TRUE), Bool(FALSE)}

SizeConfigs(w) ==
  {WithProps(InitialProps(w), [width |-> x, height |-> y, autosize |-> a]) :
     x \in SizeValues(w, "width"), y \in SizeValues(w, "height"),
     a \in SizeValues(w, "autosize")}

\* One optional prop, or all of them, given explicitly with its default.
ExplicitDefaults(w) ==
  {WithProps(InitialProps(w), [k \in S |-> DefaultsOf(w)[k]]) :
     S \in {{k} : k \in DOMAIN DefaultsOf(w)} \cup {DOMAIN DefaultsOf(w)}}

\* One prop given each of some values.
Vary(w, k, values) == {WithProps(InitialProps(w), k :> v) : v \in values}

Strs(S) == {Str(x) : x \in S}

CountrySample == {"European Union", "United States", "Japan"}
CountryLists ==
  {<<Str(c)>> : c \in Country}
    \cup UNION {[1..n -> Strs(CountrySample)] : n \in 0..MaxCountries}

\* The boolean props of AdvancedChart that show or hide a part of the chart.
ShowProps ==
  {"allowSymbolChange", "showBottomToolbar", "showDetails", "showDrawingToolsBar",
   "showHotlist", "showSaveImageButton", "showSymbolDescription", "showTopToolbar",
   "showVolume"}

\* Values of the symbols prop: with and without an exchange prefix, with a
\* second ":", with nothing before or after the ":", empty, repeated.
SymbolLists ==
  {<< >>,
   <<Str("AAPL"), Str("NYSE:TSLA")>>,
   <<Str("NYSE:TSLA"), Str("NASDAQ:AAPL"), Str("NYSE:TSLA")>>,
   <<Str("BINANCE:BTCUSDT:PERP"), Str("NASDAQ:"), Str(":AAPL"), Str("")>>}

\* Values of type CompareSymbol: the symbol alone, and with a line color.
CompareSymbols ==
  {Obj(<< <<"symbol", Str("NASDAQ:GOOGL")>> >>),
   Obj(<< <<"symbol", Str("NYSE:TSLA")>>, <<"lineColor", Str("#FF9800")>> >>)}

\* The bar and candlestick colors of SymbolOverview, all given or all omitted.
CandleColors(given) ==
  [k \in {"upColor", "downColor", "borderUpColor", "borderDownColor", "wickUpColor",
          "wickDownColor"} |-> IF given THEN Str("#26a69a") ELSE Undef]

FieldConfigs(w) ==
  CASE w = "TopStories" ->
         {WithProps(InitialProps(w), [feedMode |-> f, symbol |-> s]) :
            <<f, s>> \in {x \in ({Undef} \cup Strs({"all_symbols", "market", "symbol"}))
                                  \X {Undef, Str("NASDAQ:AAPL")} :
                            x[1] = Str("symbol") => x[2] # Undef}}
    [] w = "FundamentalData" ->
         Vary(w, "displayMode", Strs({"adaptive", "regular", "compact"}))
    [] w = "Screener" ->
         {WithProps(InitialProps(w), [exchange |-> e, defaultScreenView |-> v]) :
            e \in {Undef} \cup Strs(ScreenerExchange), v \in {Undef, Str("top_gainers")}}
    [] w = "AdvancedChart" ->
         Vary(w, "indicators",
              {Arr(<<Str(x)>>) : x \in AdvancedChartIndicator}
                \cup {Arr(<<Str("volume24h"), Str("zigZag")>>)})
           \cup {WithProps(InitialProps(w), [k \in ShowProps |-> Bool(on[k])]) :
                   on \in [ShowProps -> BOOLEAN]}
           \cup UNION {Vary(w, k, {Bool(TRUE), Bool(FALSE)}) : k \in ShowProps}
    [] w = "SymbolOverview" ->
         {WithProps(InitialProps(w),
                    [chartType |-> t, color |-> c] @@ CandleColors(given)) :
            t \in {Undef} \cup Strs(ChartType), c \in {Undef, Str("#2962FF")},
            given \in BOOLEAN}
           \cup Vary(w, "scaleMode", Strs(ScaleMode))
           \cup Vary(w, "lineType", Strs(LineType))
           \cup Vary(w, "valueTrackingMode", Strs(ValueTrackingMode))
           \cup Vary(w, "timeFormat", Strs(TimeFormat))
           \cup Vary(w, "lineWidth", {Num(1), Num(3)})
           \cup Vary(w, "trendLineColor", {Str("#FF9800")})
           \cup Vary(w, "symbols", {Arr(l) : l \in SymbolLists})
           \cup Vary(w, "compareSymbol", CompareSymbols)
    [] w = "EconomicCalendar" ->
         Vary(w, "countries", {Arr(c) : c \in CountryLists})
           \cup Vary(w, "showHighImportanceOnly", {Bool(TRUE), Bool(FALSE)})
    [] OTHER -> {}

Configs(w) == SizeConfigs(w) \cup ExplicitDefaults(w) \cup FieldConfigs(w)

RunEffectRootKeepsStyle(w, p, before) ==
  LET e == EffectOf(w, mergeProps(DefaultsOf(w), p))
  IN [cw |-> e.cw, rw |-> IF before.runs = 0 THEN e.rw ELSE before.rw,
      ch |-> IF e.setsHeight THEN e.ch ELSE before.ch,
      rh |-> IF before.runs = 0 THEN e.rh ELSE before.rh,
      src |-> e.src, config |-> e.config, textContent |-> JSONStringify(e.config),
      deps |-> e.reads, runs |-> before.runs + 1]

\* One run of the effect of component w under props p, before being what
\* the previous run left: the container keeps a style the run does not set.
RunEffect(w, p, before) ==
  LET e == EffectOf(w, mergeProps(DefaultsOf(w), p))
  IN [cw |-> e.cw, rw |-> e.rw,
      ch |-> IF e.setsHeight THEN e.ch ELSE before.ch, rh |-> e.rh,
      src |-> e.src, config |-> e.config, textContent |-> JSONStringify(e.config),
      deps |-> e.reads, runs |-> before.runs + 1]

MapperInit ==
  /\ kind \in Widgets
  /\ cfg \in Configs(kind)
  /\ rendered = NotRendered
  /\ trail = << >>
  /\ widget = << >> /\ props = << >> /\ phase = << >> /\ deps = << >>
  /\ cleanups = << >> /\ container = << >> /\ widgetRoot = << >> /\ created = << >>
  /\ load = << >> /\ calls = << >> /\ rejected = << >> /\ peak = << >>
  /\ nchanges = << >> /\ ntracked = << >>

\* The first run of the effect.
Render ==
  /\ rendered.runs = 0
  /\ rendered' = RunEffect(kind, cfg, rendered)
  /\ trail' = <<<<rendered'.cw, rendered'.ch>>>>
  /\ UNCHANGED <<kind, cfg, pageVars>>

\* The parent changes size prop k to v; the effect runs again when its last
\* run had read k.
Resize(k, v) ==
  /\ rendered.runs > 0
  /\ Len(trail) <= MaxResizes
  /\ k \in PropsOf(kind)
  /\ v # cfg[k]
  /\ cfg' = [cfg EXCEPT ![k] = v]
  /\ rendered' = IF k \in rendered.deps THEN RunEffect(kind, cfg', rendered) ELSE rendered
  /\ trail' = Append(trail, <<rendered'.cw, rendered'.ch>>)
  /\ UNCHANGED <<kind, pageVars>>

MapperNext ==
  \/ Render
  \/ \E k \in {"width", "autosize"} : \E v \in SizeValues(kind, k) \ {Num(0), Num(-5)} :
       Resize(k, v)

MapperSpec == MapperInit /\ [][MapperNext]_vars

(***************************************************************************)
(* Steps, as seen from outside.                                            *)
(***************************************************************************)
\* The load of generation g of instance i settles / is rejected in this step.
Settles(i, g) == load[i][g] = "pending" /\ load'[i][g] # "pending"
Fails(i, g) == load[i][g] = "pending" /\ load'[i][g] \in Errors

\* A prop that the mapper of mounted instance i reads changes in this step.
TrackedChange(i) ==
  /\ phase[i] = "mounted"
  /\ \E k \in ReadByMapper(widget[i], props[i]) : props'[i][k] # props[i][k]

\* The JSON payload the mapper of instance i produces for props p.
PayloadFor(i, p) ==
  JSONStringify(EffectOf(widget[i], mergeProps(DefaultsOf(widget[i]), p)).config)

(***************************************************************************)
(* Claims.                                                                 *)
(***************************************************************************)
\* C1: in every reachable state the outer container of an instance holds at
\* most one widget root, and it never held more: when a root is created the
\* cleanup of the previous generation has already removed the previous root.
C1_AtMostOneRoot == \A i \in Inst : Len(Live(i)) <= 1 /\ peak[i] <= 1

\* An instance that was mounted, re-mounted twice, saw a load fail and was
\* torn down.
C1_Witness ==
  \E i \in Inst :
    /\ phase[i] = "disposed" /\ created[i] = 3 /\ peak[i] = 1
    /\ \E g \in DOMAIN load[i] : load[i][g] \in Errors

\* C2 as stated: after the initial mount and N configuration changes of any
\* kind, one root exists and N+1 roots were created.
C2_EveryChangeRemounts ==
  \A i \in Inst :
    phase[i] = "mounted" => Len(Live(i)) = 1 /\ created[i] = nchanges[i] + 1

\* C2 (amended): after the initial mount and N configuration changes that
\* each changed a field the mapper reads, exactly one root exists, it is the
\* newest one, and N+1 roots were created.
C2_OneRootPerTrackedChange ==
  \A i \in Inst :
    phase[i] = "mounted" =>
      /\ Live(i) = <<created[i]>>
      /\ widgetRoot[i].gen = created[i]
      /\ created[i] = ntracked[i] + 1

C2_Witness ==
  \E i \in Inst : phase[i] = "mounted" /\ ntracked[i] = 2 /\ created[i] = 3

\* C3: a step that changes a field the mapper reads re-runs the effect in
\* that very step: the previous root is gone, the container holds one new
\* root, and the script injected in it carries the payload of the new props.
C3_ChangeRemounts ==
  [][\A i \in Inst :
       TrackedChange(i) =>
         /\ created'[i] = created[i] + 1
         /\ container'[i].children = <<created'[i]>>
         /\ widgetRoot'[i].gen = created'[i]
         /\ widgetRoot'[i].script.textContent = PayloadFor(i, props'[i])]_vars

\* A MiniChart whose autosize was switched off and whose width was then set
\* to 800: the live root carries the payload with the number 800.
C3_Witness ==
  \E i \in Inst :
    /\ widget[i] = "MiniChart" /\ phase[i] = "mounted" /\ created[i] = 3
    /\ props[i].width = Num(800)
    /\ Live(i) = <<3>>
    /\ widgetRoot[i].script.textContent =
         "{\"symbol\":\"NASDAQ:AAPL\",\"autosize\":false,\"width\":800,"
           \o "\"height\":\"100%\",\"locale\":\"en\",\"colorTheme\":\"light\","
           \o "\"dateRange\":\"1M\",\"isTransparent\":false,\"chartOnly\":false,"
           \o "\"noTimeScale\":false}"

\* C4: once an instance is torn down its container holds no widget root (and
\* so no injected script), and no cleanup is left to run.
C4_TeardownRemovesRoot ==
  \A i \in Inst : phase[i] = "disposed" => Live(i) = << >> /\ cleanups[i] = << >>

C4_Witness ==
  \E i \in Inst : phase[i] = "disposed" /\ created[i] = 2 /\ widgetRoot[i].gen = 2

\* C5: a step in which the load of generation g is rejected while an onError
\* is supplied invokes that callback exactly once for g, with the error of
\* the rejection; the step creates no root and starts no load; and once the
\* load of g has settled the calls for g never change again.
C5_OnErrorOnceNoRetry ==
  [][\A i \in Inst : \A g \in DOMAIN load[i] :
       /\ (Fails(i, g) /\ props[i].onError # Undef) =>
            /\ Len(calls'[i][g]) = 1
            /\ calls'[i][g][1].cb = props[i].onError
            /\ calls'[i][g][1].error = load'[i][g]
       /\ Fails(i, g) =>
            /\ created' = created
            /\ \A j \in Inst : Len(load'[j]) = Len(load[j])
       /\ load[i][g] # "pending" => calls'[i][g] = calls[i][g]]_vars

C5_Witness ==
  \E i \in Inst : \E g \in DOMAIN load[i] :
    /\ load[i][g] = ScriptError(g)
    /\ Len(calls[i][g]) = 1
    /\ calls[i][g][1].error = ScriptError(g)
    /\ created[i] = g

\* C6: a step in which a load is rejected changes nothing in the DOM (the
\* containers, their children and styles, the widget roots), leaves the
\* registered cleanup in place, and leaves no rejected promise behind.
C6_FailureLeavesDom ==
  [][\A i \in Inst : \A g \in DOMAIN load[i] :
       Fails(i, g) =>
         /\ container' = container
         /\ widgetRoot' = widgetRoot
         /\ cleanups' = cleanups
         /\ ~rejected'[i]]_vars

\* The root of a failed mount cycle is still in its container.
C6_Witness ==
  \E i \in Inst : \E g \in DOMAIN load[i] :
    load[i][g] \in Errors /\ IsAttached(i, g) /\ calls[i][g] # << >>

\* C7: with no onError supplied, a step in which a load settles - rejected
\* or loaded alike - makes no call, rejects no promise and changes nothing
\* of the instance but the state of that load.
C7_SilentWithoutOnError ==
  [][\A i \in Inst : \A g \in DOMAIN load[i] :
       (Settles(i, g) /\ props[i].onError = Undef) =>
         /\ calls' = calls
         /\ ~rejected'[i]
         /\ <<container, widgetRoot, cleanups, deps, phase, props, created>>'
              = <<container, widgetRoot, cleanups, deps, phase, props, created>>]_vars

C7_Witness ==
  \E i \in Inst : \E g \in DOMAIN load[i] :
    /\ load[i][g] \in Errors /\ calls[i][g] = << >>
    /\ props[i].onError = Undef /\ IsAttached(i, g) /\ ~rejected[i]

\* C8: only its own settling changes the state of a load - no configuration
\* change and no teardown does - and when the load of a generation whose
\* root is no longer in the DOM is rejected while an onError is supplied,
\* the callback is invoked for that generation all the same.
C8_NoCancellation ==
  [][\A i \in Inst : \A g \in DOMAIN load[i] :
       /\ load'[i][g] # load[i][g] =>
            load[i][g] = "pending" /\ props' = props /\ phase' = phase
       /\ (Fails(i, g) /\ ~IsAttached(i, g) /\ props[i].onError # Undef) =>
            /\ Len(calls'[i][g]) = 1
            /\ calls'[i][g][1].error = load'[i][g]
            /\ ~calls'[i][g][1].attached]_vars

\* Generation 1 lost its root to a configuration change and generation 2 to
\* the teardown; onError was called for both, with no root in the DOM.
C8_Witness ==
  \E i \in Inst :
    /\ phase[i] = "disposed" /\ created[i] = 2
    /\ \A g \in {1, 2} : calls[i][g] # << >> /\ ~calls[i][g][1].attached

\* C9: a change of a field the mapper reads that arrives while a load of the
\* instance is pending is carried out in that step: the old root is removed,
\* the new one mounted and its load started, next to the loads in flight.
C9_NoWaitForPendingLoad ==
  [][\A i \in Inst :
       (TrackedChange(i) /\ \E g \in DOMAIN load[i] : load[i][g] = "pending") =>
         /\ created'[i] = created[i] + 1
         /\ container'[i].children = <<created'[i]>>
         /\ load'[i] = Append(load[i], "pending")]_vars

\* Three loads of one instance were in flight at once, and the outcome of
\* the second arrived before those of the first and the third.
C9_Witness ==
  \E i \in Inst : load[i] = <<"pending", ScriptError(2), "pending">>

\* C10: a step that touches one instance (a prop change, a teardown or mount,
\* a load outcome) leaves the container, styles, root, payload, loads and
\* onError calls of every other instance as they were.
C10_InstancesIndependent ==
  [][\A i \in Inst : \A j \in Inst \ {i} :
       (props'[i] # props[i] \/ phase'[i] # phase[i] \/ load'[i] # load[i]) =>
         /\ container'[j] = container[j]
         /\ widgetRoot'[j] = widgetRoot[j]
         /\ calls'[j] = calls[j]
         /\ load'[j] = load[j]
         /\ rejected'[j] = rejected[j]
         /\ props'[j] = props[j] /\ phase'[j] = phase[j]]_vars

\* One instance failed to load and was torn down while its sibling is
\* mounted with its root in place and no onError call.
C10_Witness ==
  \E i \in Inst : \E j \in Inst \ {i} :
    /\ phase[i] = "disposed" /\ load[i][1] \in Errors /\ calls[i][1] # << >>
    /\ phase[j] = "mounted" /\ Live(j) = <<1>> /\ calls[j] = << << >> >>

(***************************************************************************)
(* Claims about the mapper of a component taken on its own.                *)
(***************************************************************************)
\* The props of the component after mergeProps.
Merged == mergeProps(DefaultsOf(kind), cfg)

\* What one run of the effect leaves for the component under props p.
Output(p) ==
  LET r == RunEffect(kind, p, NotRendered)
  IN [cw |-> r.cw, rw |-> r.rw, ch |-> r.ch, rh |-> r.rh, textContent |-> r.textContent]

Shown ==
  [cw |-> rendered.cw, rw |-> rendered.rw, ch |-> rendered.ch, rh |-> rendered.rh,
   textContent |-> rendered.textContent]

AnySize == {Str("full"), Num(800), Num(0), Num(-5)}

\* C11: for a component with an autosize flag whose autosize is true, the
\* container styles, the widget-root styles and the width and height of the
\* payload are "100%", and every other pair of sizes gives the same styles
\* and the same payload.
C11_AutosizePrecedence ==
  (rendered.runs > 0 /\ "autosize" \in PropsOf(kind) /\ Merged.autosize = Bool(TRUE)) =>
    /\ rendered.cw = "100%" /\ rendered.rw = "100%"
    /\ rendered.ch = "100%" /\ rendered.rh = "100%"
    /\ PayloadValue(rendered.config, "width") = Str("100%")
    /\ PayloadValue(rendered.config, "height") = Str("100%")
    /\ \A x \in AnySize : \A y \in AnySize :
         Output(WithProps(cfg, [width |-> x, height |-> y])) = Shown

\* An AdvancedChart given 800 pixels and autosize fills its container.
C11_Witness ==
  /\ kind = "AdvancedChart" /\ rendered.runs > 0
  /\ cfg.autosize = Bool(TRUE) /\ cfg.width = Num(800) /\ cfg.height = Num(600)
  /\ rendered.cw = "100%" /\ rendered.rh = "100%"
  /\ PayloadValue(rendered.config, "width") = Str("100%")

\* The components whose width and height are of type Size and that have an
\* autosize flag.
SizeTyped == {w \in Widgets : "autosize" \in PropsOf(w)} \ {"AdvancedChart"}

\* C12: for such a component each dimension resolves on its own: with
\* autosize true or the size "full" the styles are "100%" and the payload
\* field is the string "100%"; otherwise the styles are "<n>px" and the
\* payload field is the number n as given, zero and negative included.
C12_DimensionResolution ==
  (rendered.runs > 0 /\ kind \in SizeTyped) =>
    \A d \in {"width", "height"} :
      LET size == Merged[d]
          onContainer == IF d = "width" THEN rendered.cw ELSE rendered.ch
          onRoot == IF d = "width" THEN rendered.rw ELSE rendered.rh
          field == PayloadValue(rendered.config, d)
      IN IF Merged.autosize = Bool(TRUE) \/ size = Str("full")
         THEN onContainer = "100%" /\ onRoot = "100%" /\ field = Str("100%")
         ELSE /\ onContainer = ToString(size.n) \o "px"
              /\ onRoot = ToString(size.n) \o "px"
              /\ field = [tag |-> "number", n |-> size.n, s |-> ""]

\* A Screener of -5 pixels by "full" with autosize off.
C12_Witness ==
  /\ kind = "Screener" /\ rendered.runs > 0
  /\ cfg.autosize = Bool(FALSE) /\ cfg.width = Num(-5) /\ cfg.height = Str("full")
  /\ rendered.cw = "-5px" /\ rendered.rw = "-5px"
  /\ rendered.ch = "100%" /\ rendered.rh = "100%"
  /\ rendered.textContent =
       "{\"width\":-5,\"height\":\"100%\",\"locale\":\"en\",\"colorTheme\":\"light\","
         \o "\"isTransparent\":false,\"showTopToolbar\":true,\"market\":\"america\","
         \o "\"defaultColumn\":\"overview\",\"defaultScreen\":\"most_capitalized\"}"

\* C13: after every run of the effect the container and the widget root
\* carry the same width, and the same height when the component has one.
C13_SameStyleOnContainerAndRoot ==
  rendered.runs > 0 =>
    /\ rendered.cw = rendered.rw
    /\ "height" \in PropsOf(kind) => rendered.ch = rendered.rh

\* A CompanyProfile of 800 by 600 pixels that was switched to autosize and
\* back.
C13_Witness ==
  /\ kind = "CompanyProfile" /\ rendered.runs = 3
  /\ trail = << <<"800px", "600px">>, <<"100%", "100%">>, <<"800px", "600px">> >>
  /\ rendered.rw = "800px" /\ rendered.rh = "600px"

C15_DefaultsAsDocumented ==
  rendered.runs > 0 =>
    \A k \in DOMAIN DocumentedOf(kind) :
      cfg[k] = Undef => Merged[k] = DocumentedOf(kind)[k]

\* C16: every table has an entry for every value of its enumeration, and so
\* the payload field computed through a table is present in the payload:
\* the five mapped fields of SymbolOverview, every study of AdvancedChart
\* and every code of the country filter of EconomicCalendar.
C16_MapperTotality ==
  /\ \A e \in ScaleMode : Index(ScaleModeMap, Str(e)) # Undef
  /\ \A e \in ChartType : Index(ChartTypeMap, Str(e)) # Undef
  /\ \A e \in ValueTrackingMode : Index(ValueTrackingModeMap, Str(e)) # Undef
  /\ \A e \in LineType : Index(LineTypeMap, Str(e)) # Undef
  /\ \A e \in TimeFormat : Index(TimeFormatMap, Str(e)) # Undef
  /\ \A e \in Country : Index(CountryMap, Str(e)) # Undef
  /\ \A e \in AdvancedChartIndicator : Index(IndicatorMap, Str(e)) # Undef
  /\ \A e \in ScreenerExchange :
       e \in DOMAIN ScreenerColumnViews /\ e \in DOMAIN ScreenerScreenViews
  /\ (rendered.runs > 0 /\ kind = "SymbolOverview") =>
       {"scaleMode", "lineType", "chartType", "valuesTracking", "timeHoursFormat"}
         \subseteq PayloadKeys(rendered.config)
  /\ (rendered.runs > 0 /\ kind = "AdvancedChart") =>
       LET studies == PayloadValue(rendered.config, "studies").items
       IN /\ Len(studies) = Len(Merged.indicators.items)
          /\ \A x \in DOMAIN studies : studies[x].tag = "string"
  /\ (rendered.runs > 0 /\ kind = "EconomicCalendar" /\ Len(Merged.countries.items) = 1) =>
       PayloadValue(rendered.config, "countryFilter") # Str("")

\* A candlestick SymbolOverview carries the chart type of the vendor.
C16_Witness ==
  /\ kind = "SymbolOverview" /\ rendered.runs > 0
  /\ cfg.chartType = Str("candlestick")
  /\ PayloadValue(rendered.config, "chartType") = Str("candlesticks")

\* The chart types each chart-type-specific color of SymbolOverview applies
\* to, as its doc comment says.
AppliesTo ==
  [color |-> {"line"}, lineColor |-> {"area"}, topColor |-> {"area"},
   bottomColor |-> {"area"}, upColor |-> {"bar", "candlestick"},
   downColor |-> {"bar", "candlestick"}, borderUpColor |-> {"bar", "candlestick"},
   borderDownColor |-> {"bar", "candlestick"}, wickUpColor |-> {"candlestick"},
   wickDownColor |-> {"candlestick"}]

\* C17 as stated: a chart-type-specific color is in the payload of
\* SymbolOverview only when the chart type is one it applies to; with the
\* chart type "line" no bar or candlestick color is in it.
C17_ColorsOfOtherChartTypesOmitted ==
  (rendered.runs > 0 /\ kind = "SymbolOverview") =>
    \A f \in DOMAIN AppliesTo :
      f \in PayloadKeys(rendered.config) => Merged.chartType.s \in AppliesTo[f]

\* C18: the payload of TopStories has the key symbol exactly when feedMode is
\* "symbol", and then with the symbol given; in the other feed modes a
\* symbol that is given is left out.
C18_FeedModeRule ==
  (rendered.runs > 0 /\ kind = "TopStories") =>
    /\ "symbol" \in PayloadKeys(rendered.config) <=> Merged.feedMode = Str("symbol")
    /\ Merged.feedMode = Str("symbol") =>
         PayloadValue(rendered.config, "symbol") = cfg.symbol

\* A market feed given a symbol sends no symbol.
C18_Witness ==
  /\ kind = "TopStories" /\ rendered.runs > 0
  /\ cfg.feedMode = Str("market") /\ cfg.symbol = Str("NASDAQ:AAPL")
  /\ rendered.textContent =
       "{\"width\":\"100%\",\"height\":\"100%\",\"locale\":\"en\","
         \o "\"colorTheme\":\"light\",\"feedMode\":\"market\","
         \o "\"displayMode\":\"adaptive\",\"isTransparent\":false}"

\* The distinct elements of a list in the order of their first occurrence,
\* and the elements of a list of strings separated by commas.
RECURSIVE DistinctInOrder(_, _)
DistinctInOrder(items, seen) ==
  IF items = << >> THEN << >>
  ELSE IF Head(items) \in seen THEN DistinctInOrder(Tail(items), seen)
  ELSE <<Head(items)>> \o DistinctInOrder(Tail(items), seen \cup {Head(items)})

RECURSIVE Commas(_)
Commas(texts) ==
  IF texts = << >> THEN ""
  ELSE IF Len(texts) = 1 THEN texts[1]
  ELSE texts[1] \o "," \o Commas(Tail(texts))

\* C19: "European Union" has the code "eu", and the country filter of
\* EconomicCalendar is the codes of the distinct countries given, each once,
\* in the order of their first occurrence, separated by commas; rendering
\* the same props again gives the same payload.
C19_CountryFilter ==
  /\ Index(CountryMap, Str("European Union")) = Str("eu")
  /\ (rendered.runs > 0 /\ kind = "EconomicCalendar") =>
       LET distinct == DistinctInOrder(Merged.countries.items, {})
           codes == [x \in DOMAIN distinct |-> CountryMap[distinct[x].s].s]
       IN /\ PayloadValue(rendered.config, "countryFilter") = Str(Commas(codes))
          /\ Output(cfg).textContent = rendered.textContent

\* The European Union given twice around the United States.
C19_Witness ==
  /\ kind = "EconomicCalendar" /\ rendered.runs > 0
  /\ cfg.countries =
       Arr(<<Str("European Union"), Str("United States"), Str("European Union")>>)
  /\ PayloadValue(rendered.config, "countryFilter") = Str("eu,us")

\* C20 as stated: the color given to SymbolOverview is what the payload
\* carries as trendLineColor.
C20_ColorIsTrendLineColor ==
  (rendered.runs > 0 /\ kind = "SymbolOverview" /\ cfg.color # Undef) =>
    PayloadValue(rendered.config, "trendLineColor") = cfg.color

\* C21 as stated: a compareSymbol given to SymbolOverview reaches the vendor:
\* the payload differs from the payload of the same props without it, and
\* from the payload of the same props with another compareSymbol.
C21_CompareSymbolInPayload ==
  (rendered.runs > 0 /\ kind = "SymbolOverview" /\ cfg.compareSymbol # Undef) =>
    \A other \in (CompareSymbols \cup {Undef}) \ {cfg.compareSymbol} :
      Output(WithProps(cfg, [compareSymbol |-> other])).textContent
        # rendered.textContent

(***************************************************************************)
(* Further claims about the lifecycle.                                     *)
(***************************************************************************)
\* C22: a step that creates a widget root (the synchronous mount step: root
\* creation, styles, script injection, cleanup registration) leaves the load
\* it starts pending and invokes no onError; a step that invokes onError is a
\* later step, in which a pending load of an instance that is mounted or torn
\* down is rejected and no root is created.
C22_OnErrorAfterMountStep ==
  [][\A i \in Inst :
       /\ created'[i] # created[i] =>
            /\ phase'[i] = "mounted"
            /\ load'[i] = Append(load[i], "pending")
            /\ calls'[i] = Append(calls[i], << >>)
       /\ \A g \in DOMAIN calls[i] :
            calls'[i][g] # calls[i][g] =>
              /\ phase[i] \in {"mounted", "disposed"}
              /\ Fails(i, g)
              /\ created' = created /\ widgetRoot' = widgetRoot]_vars

\* The second mount cycle of a mounted instance failed after its mount step
\* and its callback was called, with the root in place; the first made no
\* call.
C22_Witness ==
  \E i \in Inst :
    /\ phase[i] = "mounted" /\ created[i] = 2
    /\ load[i] = <<"loaded", ScriptError(2)>>
    /\ calls[i][1] = << >>
    /\ Len(calls[i][2]) = 1 /\ calls[i][2][1].attached

(***************************************************************************)
(* Further claims about the mappers.                                       *)
(***************************************************************************)
\* C23: the importance filter of EconomicCalendar is "0,1" exactly when
\* showHighImportanceOnly is true and "-1,0,1" otherwise, omitted included;
\* and with countries empty or omitted the payload carries the country
\* filter "", the empty string.
C23_ImportanceAndEmptyFilter ==
  (rendered.runs > 0 /\ kind = "EconomicCalendar") =>
    /\ PayloadValue(rendered.config, "importanceFilter") =
         (IF cfg.showHighImportanceOnly = Bool(TRUE) THEN Str("0,1") ELSE Str("-1,0,1"))
    /\ cfg.countries \in {Undef, Arr(<< >>)} =>
         /\ "countryFilter" \in PayloadKeys(rendered.config)
         /\ PayloadValue(rendered.config, "countryFilter") = Str("")

\* An EconomicCalendar of the high-importance events of every country.
C23_Witness ==
  /\ kind = "EconomicCalendar" /\ rendered.runs > 0
  /\ cfg.showHighImportanceOnly = Bool(TRUE) /\ cfg.countries = Undef
  /\ rendered.textContent =
       "{\"autosize\":true,\"width\":\"100%\",\"height\":\"100%\",\"locale\":\"en\","
         \o "\"colorTheme\":\"light\",\"importanceFilter\":\"0,1\","
         \o "\"isTransparent\":false,\"countryFilter\":\"\"}"

\* The positions of the ":" in a text, and the segment of the text between
\* its first and its second ":" (up to the end when it has one ":" only).
ColonsOf(text) == {x \in 1..Len(text) : SubSeq(text, x, x) = ":"}
SegmentAfterFirstColon(text) ==
  LET first == CHOOSE x \in ColonsOf(text) : \A y \in ColonsOf(text) : x <= y
      later == {y \in ColonsOf(text) : y > first} \cup {Len(text) + 1}
      second == CHOOSE x \in later : \A y \in later : x <= y
  IN SubSeq(text, first + 1, second - 1)

\* C24: the symbols of the payload of SymbolOverview are as many as the
\* symbols given and in their order, and the symbol s is sent as the pair
\* [d, s + "|1D"], d being the segment between the first and the second ":"
\* of s when s has a ":" and s itself otherwise; "NASDAQ:AAPL" gives "AAPL".
C24_SymbolMapping ==
  /\ SplitColon("NASDAQ:AAPL")[2] = "AAPL"
  /\ (rendered.runs > 0 /\ kind = "SymbolOverview") =>
       LET given == cfg.symbols.items
           sent == PayloadValue(rendered.config, "symbols").items
           d(text) == IF ColonsOf(text) = {} THEN text ELSE SegmentAfterFirstColon(text)
       IN /\ Len(sent) = Len(given)
          /\ \A x \in DOMAIN given :
               sent[x] = Arr(<<Str(d(given[x].s)), Str(given[x].s \o "|1D")>>)

\* Four symbols: one with two ":", one ending in ":", one starting with ":",
\* and the empty text.
C24_Witness ==
  /\ kind = "SymbolOverview" /\ rendered.runs > 0
  /\ cfg.symbols =
       Arr(<<Str("BINANCE:BTCUSDT:PERP"), Str("NASDAQ:"), Str(":AAPL"), Str("")>>)
  /\ PayloadValue(rendered.config, "symbols") =
       Arr(<<Arr(<<Str("BTCUSDT"), Str("BINANCE:BTCUSDT:PERP|1D")>>),
             Arr(<<Str(""), Str("NASDAQ:|1D")>>),
             Arr(<<Str("AAPL"), Str(":AAPL|1D")>>),
             Arr(<<Str(""), Str("|1D")>>)>>)

\* The payload fields of AdvancedChart that invert a boolean prop, and those
\* that carry one as it is.
Inverted ==
  [hide_side_toolbar |-> "showDrawingToolsBar", hide_legend |-> "showSymbolDescription",
   hide_top_toolbar |-> "showTopToolbar", hide_volume |-> "showVolume"]
Uninverted ==
  [allow_symbol_change |-> "allowSymbolChange", withdateranges |-> "showBottomToolbar",
   details |-> "showDetails", hotlist |-> "showHotlist",
   save_image |-> "showSaveImageButton"]

\* C25: in the payload of AdvancedChart each hide_* field is the negation of
\* its show prop and each of the five other fields is its prop as it is, the
\* prop being the value given or else its default; with all of them omitted
\* every hide_* field is false.
C25_ShowHideRemapping ==
  (rendered.runs > 0 /\ kind = "AdvancedChart") =>
    /\ \A f \in DOMAIN Inverted :
         PayloadValue(rendered.config, f) = Bool(Merged[Inverted[f]] = Bool(FALSE))
    /\ \A f \in DOMAIN Uninverted :
         PayloadValue(rendered.config, f) = Merged[Uninverted[f]]
    /\ (\A k \in ShowProps : cfg[k] = Undef) =>
         \A f \in DOMAIN Inverted : PayloadValue(rendered.config, f) = Bool(FALSE)

\* An AdvancedChart with the drawing tools and the legend hidden, the top
\* toolbar and the volume shown, and the details on.
C25_Witness ==
  /\ kind = "AdvancedChart" /\ rendered.runs > 0
  /\ cfg.showDrawingToolsBar = Bool(FALSE) /\ cfg.showSymbolDescription = Bool(FALSE)
  /\ cfg.showTopToolbar = Bool(TRUE) /\ cfg.showVolume = Bool(TRUE)
  /\ cfg.showDetails = Bool(TRUE) /\ cfg.allowSymbolChange = Bool(FALSE)
  /\ PayloadValue(rendered.config, "hide_side_toolbar") = Bool(TRUE)
  /\ PayloadValue(rendered.config, "hide_legend") = Bool(TRUE)
  /\ PayloadValue(rendered.config, "hide_top_toolbar") = Bool(FALSE)
  /\ PayloadValue(rendered.config, "hide_volume") = Bool(FALSE)
  /\ PayloadValue(rendered.config, "details") = Bool(TRUE)
  /\ PayloadValue(rendered.config, "allow_symbol_change") = Bool(FALSE)

(***************************************************************************)
(* Claims about changes the effect does not see, and about the teardown.   *)
(***************************************************************************)
\* Prop k of mounted instance i is one the claim C26 names: a width or a
\* height while autosize is true, or the symbol of a TopStories whose feed
\* mode is not "symbol".
NotReadByLastCycle(i, k) ==
  LET mp == mergeProps(DefaultsOf(widget[i]), props[i])
  IN \/ /\ k \in {"width", "height"}
        /\ "autosize" \in PropsOf(widget[i])
        /\ mp.autosize = Bool(TRUE)
     \/ /\ k = "symbol"
        /\ widget[i] = "TopStories"
        /\ mp.feedMode # Str("symbol")

\* C26: a step that changes such a prop of a mounted instance tears nothing
\* down and mounts nothing: the roots created, the container and its
\* styles, the live root, the loads and the cleanup are as before.
C26_UnreadChangeNoRemount ==
  [][\A i \in Inst : \A k \in PropsOf(widget[i]) :
       (phase[i] = "mounted" /\ props'[i][k] # props[i][k] /\ NotReadByLastCycle(i, k)) =>
         /\ created' = created
         /\ container' = container
         /\ widgetRoot' = widgetRoot
         /\ load' = load
         /\ cleanups' = cleanups]_vars

\* A TopStories in its default feed mode and with autosize whose symbol and
\* width were both changed: it still holds its first root, with the first
\* payload.
C26_Witness ==
  \E i \in Inst :
    /\ widget[i] = "TopStories" /\ phase[i] = "mounted"
    /\ props[i].symbol = Str("NYSE:TSLA") /\ props[i].width = Num(800)
    /\ props[i].feedMode = Undef /\ props[i].autosize = Undef
    /\ nchanges[i] = 2 /\ created[i] = 1 /\ Live(i) = <<1>>
    /\ container[i].width = "100%"
    /\ widgetRoot[i].script.textContent = PayloadFor(i, InitialProps("TopStories"))

\* C27: a step that changes only onError of a mounted instance tears nothing
\* down and mounts nothing; and a step in which a load is rejected invokes
\* the onError the instance is given at that moment, once, whatever it was
\* when that generation was mounted, and invokes nothing when the instance
\* is given none.
C27_OnErrorBoundLate ==
  [][\A i \in Inst :
       /\ (phase[i] = "mounted" /\ props'[i].onError # props[i].onError) =>
            /\ created' = created /\ container' = container
            /\ widgetRoot' = widgetRoot /\ cleanups' = cleanups
            /\ load' = load /\ calls' = calls
       /\ \A g \in DOMAIN load[i] :
            Fails(i, g) =>
              IF props[i].onError = Undef THEN calls' = calls
              ELSE /\ Len(calls'[i][g]) = Len(calls[i][g]) + 1
                   /\ calls'[i][g][Len(calls'[i][g])].cb = props[i].onError]_vars

\* The first generation was mounted with no onError; the instance was then
\* given one callback, then another, and the rejection of the load called
\* the latter.
C27_Witness ==
  \E i \in Inst :
    /\ phase[i] = "mounted" /\ created[i] = 1 /\ nchanges[i] = 2
    /\ props[i].onError = Fn("logError")
    /\ load[i] = <<ScriptError(1)>>
    /\ Len(calls[i][1]) = 1 /\ calls[i][1][1].cb = Fn("logError")

\* C28: in every state a mounted instance holds exactly one widget root, the
\* newest; the script in it is the script of the component with the payload
\* its mapper gives for the props the instance has now; and the container
\* and the root carry the dimensions resolved from those props.  (A change
\* of a prop runs the effect within the step, so every state is quiescent.)
C28_LiveWidgetNeverStale ==
  \A i \in Inst :
    phase[i] = "mounted" =>
      LET e == EffectOf(widget[i], mergeProps(DefaultsOf(widget[i]), props[i]))
      IN /\ Live(i) = <<created[i]>>
         /\ widgetRoot[i].gen = created[i]
         /\ widgetRoot[i].script = [src |-> e.src, textContent |-> JSONStringify(e.config)]
         /\ container[i].width = e.cw /\ widgetRoot[i].width = e.rw
         /\ e.setsHeight => container[i].height = e.ch
         /\ widgetRoot[i].height = e.rh

\* A TechnicalAnalysis whose width was set to 800 while autosize was on (the
\* effect did not run) and whose autosize was then turned off: the one run
\* that followed picked the width up.
C28_Witness ==
  \E i \in Inst :
    /\ widget[i] = "TechnicalAnalysis" /\ phase[i] = "mounted"
    /\ props[i].width = Num(800) /\ props[i].autosize = Bool(FALSE)
    /\ nchanges[i] = 2 /\ created[i] = 2 /\ Live(i) = <<2>>
    /\ container[i].width = "800px" /\ container[i].height = "100%"
    /\ widgetRoot[i].script.textContent =
         "{\"symbol\":\"NASDAQ:AAPL\",\"width\":800,\"height\":\"100%\","
           \o "\"interval\":\"5m\",\"showIntervalTabs\":false,"
           \o "\"displayMode\":\"single\",\"locale\":\"en\","
           \o "\"colorTheme\":\"light\",\"isTransparent\":false}"

(***************************************************************************)
(* The default views of the Screener.                                      *)
(***************************************************************************)
\* The elements of a list.
Members(list) == {list[x] : x \in DOMAIN list}

\* C29 as stated: a Screener given an exchange and no default views sends
\* a defaultColumn among the column views of that exchange and a
\* defaultScreen among its screen views.
C29_DefaultViewsOfExchange ==
  (/\ rendered.runs > 0 /\ kind = "Screener" /\ cfg.exchange # Undef
   /\ cfg.defaultColumnView = Undef /\ cfg.defaultScreenView = Undef) =>
    /\ PayloadValue(rendered.config, "defaultColumn").s
         \in Members(ScreenerColumnViews[cfg.exchange.s])
    /\ PayloadValue(rendered.config, "defaultScreen").s
         \in Members(ScreenerScreenViews[cfg.exchange.s])

(***************************************************************************)
(* After the teardown.                                                     *)
(***************************************************************************)
\* C30: an instance that was torn down stays torn down, and no step - a
\* change of its props, the outcome of a load it had started - creates a
\* widget root for it, starts a load for it, or changes its container, its
\* last root, its subscriptions or its cleanups.
C30_UnmountedIsTerminal ==
  [][\A i \in Inst :
       phase[i] = "disposed" =>
         /\ phase'[i] = "disposed"
         /\ created'[i] = created[i]
         /\ Len(load'[i]) = Len(load[i])
         /\ container'[i] = container[i]
         /\ widgetRoot'[i] = widgetRoot[i]
         /\ deps'[i] = deps[i] /\ cleanups'[i] = cleanups[i]]_vars

\* A SingleTicker that was torn down, was then given an onError and another
\* symbol, and whose only load then failed: it created one root in all, and
\* its container is empty.
C30_Witness ==
  \E i \in Inst :
    /\ widget[i] = "SingleTicker" /\ phase[i] = "disposed"
    /\ props[i].symbol = Str("NYSE:TSLA") /\ props[i].onError # Undef
    /\ created[i] = 1 /\ load[i] = <<ScriptError(1)>>
    /\ Len(calls[i][1]) = 1 /\ ~calls[i][1][1].attached
    /\ Live(i) = << >>
====
